---- MODULE Spec2Model ----
(***************************************************************************)
(* Model of the workspace file index and search engine                     *)
(* (src/src/fileSearchManager.ts, class FileSearchManager, lines 38-680).  *)
(*                                                                         *)
(* Strings are sequences of one-character strings, so that split, join,    *)
(* includes, startsWith, toLowerCase and the two string orders used by the *)
(* code (code-unit order of Array.prototype.sort, and localeCompare) are   *)
(* computed rather than assumed.  The path separator is "/" (posix).       *)
(*                                                                         *)
(* One action of the engine is one run-to-completion turn of the event     *)
(* loop: the synchronous part of a call together with the promise          *)
(* continuations (microtasks) it releases.  The engine is suspended only   *)
(* while workspace.findFiles or workspace.fs.readDirectory is pending;     *)
(* those are the only points where other calls, watcher notifications and  *)
(* clock ticks interleave.  Date.now() is read by isCacheValid only; the   *)
(* clock may advance between the two reads of one browse call.             *)
(* The icon of a suggestion is a constant lookup by extension that no      *)
(* decision of the engine reads; suggestions are carried without it.       *)
(***************************************************************************)
EXTENDS Integers, Sequences, FiniteSets, TLC

(***************************************************************************)
(* Characters and strings                                                  *)
(***************************************************************************)

\* The characters of the model's alphabet in UTF-16 code-unit order.
Chars ==
    << "*", "-", ".", "/",
       "0", "1", "2", "3", "4", "5", "6", "7", "8", "9",
       "A", "B", "R", "S", "_",
       "a", "b", "c", "d", "e", "f", "g", "h", "i", "j", "k", "l", "m",
       "n", "o", "p", "q", "r", "s", "t", "u", "v", "w", "x", "y", "z" >>

CodeUnit(c) == CHOOSE i \in 1..Len(Chars) : Chars[i] = c

\* The same characters, case folded, in the order of the root collation
\* that localeCompare uses: punctuation, digits, letters.
Collation ==
    << "_", "-", ".", "*", "/",
       "0", "1", "2", "3", "4", "5", "6", "7", "8", "9",
       "a", "b", "c", "d", "e", "f", "g", "h", "i", "j", "k", "l", "m",
       "n", "o", "p", "q", "r", "s", "t", "u", "v", "w", "x", "y", "z" >>

sep == "/"

toLowerChar(c) ==
    CASE c = "A" -> "a"
      [] c = "B" -> "b"
      [] c = "R" -> "r"
      [] c = "S" -> "s"
      [] OTHER -> c

isUpperChar(c) == toLowerChar(c) # c

toLowerCase(s) == [i \in 1..Len(s) |-> toLowerChar(s[i])]

startsWith(s, p) == Len(p) <= Len(s) /\ SubSeq(s, 1, Len(p)) = p

includes(s, q) ==
    \E i \in 0..(Len(s) - Len(q)) : SubSeq(s, i + 1, i + Len(q)) = q

\* String.prototype.substring(from): the rest of s from 0-based index from.
substring(s, from) == SubSeq(s, from + 1, Len(s))

\* String.prototype.split(separator) for a one-character separator.
RECURSIVE split(_, _)
split(s, c) ==
    IF \A i \in 1..Len(s) : s[i] # c
    THEN << s >>
    ELSE LET k == CHOOSE i \in 1..Len(s) :
                      s[i] = c /\ \A j \in 1..(i - 1) : s[j] # c
         IN  << SubSeq(s, 1, k - 1) >> \o split(SubSeq(s, k + 1, Len(s)), c)

\* Array.prototype.join(separator).
RECURSIVE join(_, _)
join(parts, c) ==
    IF Len(parts) = 0 THEN << >>
    ELSE IF Len(parts) = 1 THEN parts[1]
    ELSE parts[1] \o << c >> \o join(Tail(parts), c)

\* Array.prototype.slice(0, n).
slice(a, n) == SubSeq(a, 1, IF Len(a) < n THEN Len(a) ELSE n)

\* Default Array.prototype.sort order on strings: UTF-16 code units.
RECURSIVE codeUnitLess(_, _)
codeUnitLess(a, b) ==
    IF Len(b) = 0 THEN FALSE
    ELSE IF Len(a) = 0 THEN TRUE
    ELSE IF a[1] # b[1] THEN CodeUnit(a[1]) < CodeUnit(b[1])
    ELSE codeUnitLess(Tail(a), Tail(b))

\* Primary collation weight of a character: case is ignored at this level.
PrimaryWeight(c) ==
    CHOOSE i \in 1..Len(Collation) : Collation[i] = toLowerChar(c)

RECURSIVE primaryCompare(_, _)
primaryCompare(a, b) ==
    IF Len(a) = 0 /\ Len(b) = 0 THEN 0
    ELSE IF Len(a) = 0 THEN -1
    ELSE IF Len(b) = 0 THEN 1
    ELSE IF PrimaryWeight(a[1]) < PrimaryWeight(b[1]) THEN -1
    ELSE IF PrimaryWeight(a[1]) > PrimaryWeight(b[1]) THEN 1
    ELSE primaryCompare(Tail(a), Tail(b))

\* Tertiary level: at the first case difference lower case sorts first.
RECURSIVE tertiaryCompare(_, _)
tertiaryCompare(a, b) ==
    IF Len(a) = 0 \/ Len(b) = 0 THEN 0
    ELSE IF a[1] = b[1] THEN tertiaryCompare(Tail(a), Tail(b))
    ELSE IF isUpperChar(b[1]) THEN -1 ELSE 1

\* String.prototype.localeCompare on the model's alphabet.
localeCompare(a, b) ==
    IF primaryCompare(a, b) # 0 THEN primaryCompare(a, b)
    ELSE tertiaryCompare(a, b)

\* The elements of a sequence, and a sequence without repeated elements
\* (insertion order of a JavaScript Set).
Range(a) == {a[i] : i \in 1..Len(a)}

RECURSIVE dedup(_)
dedup(a) ==
    IF Len(a) = 0 THEN << >>
    ELSE LET d == dedup(SubSeq(a, 1, Len(a) - 1))
         IN  IF a[Len(a)] \in Range(d) THEN d ELSE d \o << a[Len(a)] >>

(***************************************************************************)
(* node:path (posix)                                                       *)
(***************************************************************************)

\* Resolve "." and ".." and drop empty segments.
RECURSIVE normalizeParts(_, _)
normalizeParts(done, todo) ==
    IF Len(todo) = 0 THEN done
    ELSE LET p == todo[1] IN
         IF p = << >> \/ p = << "." >>
         THEN normalizeParts(done, Tail(todo))
         ELSE IF p = << ".", "." >> /\ Len(done) > 0
                   /\ done[Len(done)] # << ".", "." >>
         THEN normalizeParts(SubSeq(done, 1, Len(done) - 1), Tail(todo))
         ELSE normalizeParts(done \o << p >>, Tail(todo))

isAbsolute(p) == Len(p) > 0 /\ p[1] = sep

\* path.join(a, b).
pathJoin(a, b) ==
    LET raw   == IF Len(a) = 0 THEN b
                 ELSE IF Len(b) = 0 THEN a ELSE a \o << sep >> \o b
        parts == normalizeParts(<< >>, split(raw, sep))
        parts2 == IF isAbsolute(raw) /\ Len(parts) > 0
                     /\ parts[1] = << ".", "." >>
                  THEN Tail(parts) ELSE parts
        body  == join(parts2, sep)
    IN  IF isAbsolute(raw) THEN << sep >> \o body
        ELSE IF Len(body) = 0 THEN << "." >> ELSE body

\* The working directory path.relative resolves an empty path against.
cwd == << "/" >>

RECURSIVE commonPrefixLen(_, _)
commonPrefixLen(a, b) ==
    IF Len(a) = 0 \/ Len(b) = 0 \/ a[1] # b[1] THEN 0
    ELSE 1 + commonPrefixLen(Tail(a), Tail(b))

\* path.relative(from, to) for an absolute `to`.
pathRelative(from, to) ==
    LET f  == normalizeParts(<< >>, split(IF Len(from) = 0 THEN cwd ELSE from, sep))
        t  == normalizeParts(<< >>, split(to, sep))
        k  == commonPrefixLen(f, t)
        up == [i \in 1..(Len(f) - k) |-> << ".", "." >>]
    IN  join(up \o SubSeq(t, k + 1, Len(t)), sep)

lastIndexOf(s, c) ==
    IF \A i \in 1..Len(s) : s[i] # c THEN 0
    ELSE CHOOSE i \in 1..Len(s) : s[i] = c /\ \A j \in (i + 1)..Len(s) : s[j] # c

\* path.parse(p).dir for a relative path: "" when p has no separator.
parseDir(p) ==
    IF lastIndexOf(p, sep) = 0 THEN << >>
    ELSE SubSeq(p, 1, lastIndexOf(p, sep) - 1)

\* path.parse(p).base and path.basename(p).
basename(p) == SubSeq(p, lastIndexOf(p, sep) + 1, Len(p))

\* path.dirname(p) for a relative path: "." when p has no separator.
dirname(p) == IF lastIndexOf(p, sep) = 0 THEN << "." >> ELSE parseDir(p)

(***************************************************************************)
(* Suggestions and comparators                                             *)
(***************************************************************************)

\* FileSuggestion (without the icon).
FileSuggestion(name, fullPath, relativePath, type) ==
    [name |-> name, fullPath |-> fullPath, relativePath |-> relativePath,
     type |-> type]

\* Default sort of Array.from(subdirs).sort(): strings by code units.
defaultCompare(a, b) ==
    IF codeUnitLess(a, b) THEN -1 ELSE IF codeUnitLess(b, a) THEN 1 ELSE 0

\* (a, b) => a.name.localeCompare(b.name)
nameCompare(a, b) == localeCompare(a.name, b.name)

\* Comparator of getDirectoryContentsFs: folders first, then by name.
fsCompare(a, b) ==
    IF a.type # b.type THEN (IF a.type = "folder" THEN -1 ELSE 1)
    ELSE localeCompare(a.name, b.name)

\* The comparator without its exact-match rule (lines 543-546).
rankCompare_noExact(lowerQuery, a, b) ==
    IF a.type # b.type THEN (IF a.type = "folder" THEN -1 ELSE 1)
    ELSE localeCompare(a.name, b.name)

\* Comparator of filterFromCache: exact match first, then folders, then name.
rankCompare(lowerQuery, a, b) ==
    LET aExact == toLowerCase(a.name) = lowerQuery
        bExact == toLowerCase(b.name) = lowerQuery
    IN  IF aExact /\ ~bExact THEN -1
        ELSE IF ~aExact /\ bExact THEN 1
        ELSE IF a.type # b.type THEN (IF a.type = "folder" THEN -1 ELSE 1)
        ELSE localeCompare(a.name, b.name)

compare(cmp, a, b) ==
    CASE cmp.kind = "default" -> defaultCompare(a, b)
      [] cmp.kind = "name"    -> nameCompare(a, b)
      [] cmp.kind = "fs"      -> fsCompare(a, b)
      [] cmp.kind = "rank"    -> rankCompare(cmp.lowerQuery, a, b)

\* Array.prototype.sort(compareFn) is stable: an element is placed after the
\* elements the comparator puts before it and after the earlier elements
\* the comparator does not separate from it.  cmp names the comparator.
\* position[i] is the place of a[i] in the sorted array.
placeAt(a, position) ==
    [k \in 1..Len(a) |-> a[CHOOSE i \in 1..Len(a) : position[i] = k]]

\* A sort that is not stable: elements the comparator does not separate
\* come out in reverse order.
sortStable_reversesTies(a, cmp) ==
    placeAt(a, [i \in 1..Len(a) |->
                   1 + Cardinality({j \in 1..Len(a) :
                           \/ compare(cmp, a[j], a[i]) < 0
                           \/ j > i /\ compare(cmp, a[j], a[i]) = 0})] \o << >>)

sortStable(a, cmp) ==
    placeAt(a, [i \in 1..Len(a) |->
                   1 + Cardinality({j \in 1..Len(a) :
                           \/ compare(cmp, a[j], a[i]) < 0
                           \/ j < i /\ compare(cmp, a[j], a[i]) = 0})] \o << >>)

(***************************************************************************)
(* Program constants                                                       *)
(***************************************************************************)

CACHE_TTL == 30000

MAX_RESULTS == 50

MAX_CACHE_FILES == 100000

EXCLUDE_PATTERNS ==
    << << "*", "*", "/", "n", "o", "d", "e", "_", "m", "o", "d", "u", "l", "e", "s", "/", "*", "*" >>,
       << "*", "*", "/", ".", "g", "i", "t", "/", "*", "*" >>,
       << "*", "*", "/", "d", "i", "s", "t", "/", "*", "*" >>,
       << "*", "*", "/", "b", "u", "i", "l", "d", "/", "*", "*" >>,
       << "*", "*", "/", ".", "v", "s", "c", "o", "d", "e", "-", "t", "e", "s", "t", "/", "*", "*" >>,
       << "*", "*", "/", "c", "o", "v", "e", "r", "a", "g", "e", "/", "*", "*" >>,
       << "*", "*", "/", ".", "n", "e", "x", "t", "/", "*", "*" >>,
       << "*", "*", "/", "o", "u", "t", "/", "*", "*" >>,
       << "*", "*", "/", ".", "t", "u", "r", "b", "o", "/", "*", "*" >>,
       << "*", "*", "/", ".", "v", "e", "n", "v", "/", "*", "*" >>,
       << "*", "*", "/", "_", "_", "p", "y", "c", "a", "c", "h", "e", "_", "_", "/", "*", "*" >>,
       << "*", "*", "/", "t", "a", "r", "g", "e", "t", "/", "*", "*" >>,
       << "*", "*", "/", "v", "e", "n", "d", "o", "r", "/", "*", "*" >>,
       << "*", "*", "/", "*", ".", "m", "i", "n", ".", "j", "s" >>,
       << "*", "*", "/", "*", ".", "m", "i", "n", ".", "c", "s", "s" >> >>

(***************************************************************************)
(* Snapshot construction: the body of buildCache after findFiles resolved  *)
(***************************************************************************)

\* cachedData = null.
NoCache == [present |-> FALSE]

\* The suggestion buildCache creates for one URI of the enumeration.
fileSuggestionOf(workspaceRoot, fsPath) ==
    LET relativePath == pathRelative(workspaceRoot, fsPath)
    IN  FileSuggestion(basename(relativePath), fsPath, relativePath, "file")

\* The key without the "." that stands for the root.
dirKeyOf_noDot(relativePath) == parseDir(relativePath)

\* const dirKey = dir || '.'
dirKeyOf(relativePath) ==
    IF parseDir(relativePath) = << >> THEN << "." >> ELSE parseDir(relativePath)

\* allFolders without the parent folders of lines 175-180: only the
\* directory of the file itself.
foldersOf_dirOnly(relativePath) ==
    IF parseDir(relativePath) = << >> THEN {} ELSE {parseDir(relativePath)}

\* The folders buildCache adds to allFolders for one file: its directory
\* and every prefix of the directory's segments.
foldersOf(relativePath) ==
    LET dir   == parseDir(relativePath)
        parts == split(dir, sep)
    IN  IF dir = << >> THEN {}
        ELSE {dir} \cup {join(SubSeq(parts, 1, i), sep) : i \in 1..Len(parts)}

allFolders(files) == UNION {foldersOf(files[i].relativePath) : i \in 1..Len(files)}

\* directoryMap: the files of each directory in enumeration order, and an
\* empty list for every folder of allFolders that has no direct file.
directoryMapOf(files) ==
    LET keys == {dirKeyOf(files[i].relativePath) : i \in 1..Len(files)}
                    \cup allFolders(files)
    IN  [k \in keys |->
            SelectSeq(files, LAMBDA f : dirKeyOf(f.relativePath) = k)]

\* snapshotOf that installs the snapshot before the directory map has
\* seen the last file.
snapshotOf_partial(workspaceRoot, uris, timestamp, b) ==
    LET files == [i \in 1..Len(uris) |-> fileSuggestionOf(workspaceRoot, uris[i])]
    IN  [present |-> TRUE, files |-> files,
         directoryMap |-> directoryMapOf(SubSeq(files, 1, Len(files) - 1)),
         timestamp |-> timestamp,
         build |-> b.id, outdated |-> b.outdated, superseded |-> b.superseded,
         disposed |-> b.disposed]

\* The snapshot installed by a build: files, directoryMap and timestamp.
\* It is tagged with the enumeration that produced it (build) and with what
\* happened while that enumeration was pending: a watcher notification was
\* delivered (outdated), the workspace root was replaced (superseded),
\* dispose() ran (disposed).
snapshotOf(workspaceRoot, uris, timestamp, b) ==
    LET files == [i \in 1..Len(uris) |-> fileSuggestionOf(workspaceRoot, uris[i])]
    IN  [present |-> TRUE, files |-> files,
         directoryMap |-> directoryMapOf(files), timestamp |-> timestamp,
         build |-> b.id, outdated |-> b.outdated, superseded |-> b.superseded,
         disposed |-> b.disposed]

\* The age of the snapshot cd has reached the TTL when Date.now() = t.
ageReachedTTL(cd, t) == cd.present /\ (t - cd.timestamp) >= CACHE_TTL

\* isCacheValid that still accepts a snapshot whose age equals the TTL.
isCacheValid_inclusive(cd, t) == cd.present /\ (t - cd.timestamp) <= CACHE_TTL

\* isCacheValid with Date.now() = t.
isCacheValid(cd, t) == cd.present /\ (t - cd.timestamp) < CACHE_TTL

(***************************************************************************)
(* filterFromCache                                                         *)
(***************************************************************************)

\* The scope test both loops of filterFromCache apply to a file.
inScope(file, currentPath) ==
    \/ currentPath = << >>
    \/ startsWith(file.relativePath, currentPath \o << sep >>)
    \/ file.relativePath = currentPath

\* seenFilePaths and seenDirs that are never added to.
seenPaths_forgets(results, type) == {}

\* seenFilePaths and seenDirs hold exactly the relative paths of the file
\* and folder entries pushed so far.
seenPaths(results, type) ==
    {results[i].relativePath : i \in {j \in 1..Len(results) : results[j].type = type}}

\* The iteration without the two match tests: every file not yet seen is
\* pushed.
fileLoopPush_noTest(file, lowerQuery, results) ==
    IF file.relativePath \notin seenPaths(results, "file")
    THEN results \o << file >>
    ELSE results

\* One iteration of the file loop: the entry it pushes, if any.
fileLoopPush(file, lowerQuery, results) ==
    LET nameMatch == includes(toLowerCase(file.name), lowerQuery)
        partMatch == \E part \in Range(split(file.relativePath, sep)) :
                         includes(toLowerCase(part), lowerQuery)
    IN  IF (nameMatch \/ partMatch)
           /\ file.relativePath \notin seenPaths(results, "file")
        THEN results \o << file >>
        ELSE results

\* The file loop from index i on, with the break at MAX_RESULTS.
RECURSIVE fileLoop(_, _, _, _, _)
fileLoop(files, i, lowerQuery, currentPath, results) ==
    IF i > Len(files) THEN results
    ELSE IF ~inScope(files[i], currentPath)
    THEN fileLoop(files, i + 1, lowerQuery, currentPath, results)
    ELSE LET r == fileLoopPush(files[i], lowerQuery, results)
         IN  IF Len(r) >= MAX_RESULTS THEN r
             ELSE fileLoop(files, i + 1, lowerQuery, currentPath, r)

\* The inner loop without the test of dirPart against the query (line 525).
RECURSIVE folderSegments_anySegment(_, _, _, _, _, _)
folderSegments_anySegment(pathParts, k, lowerQuery, directoryMap, workspaceRoot, results) ==
    IF k > Len(pathParts) - 1 THEN results
    ELSE LET dirPathSoFar == join(SubSeq(pathParts, 1, k), sep)
             r == IF dirPathSoFar \in DOMAIN directoryMap
                     /\ dirPathSoFar \notin seenPaths(results, "folder")
                  THEN results \o << FileSuggestion(pathParts[k],
                                        pathJoin(workspaceRoot, dirPathSoFar),
                                        dirPathSoFar, "folder") >>
                  ELSE results
         IN  folderSegments_anySegment(pathParts, k + 1, lowerQuery, directoryMap,
                                       workspaceRoot, r)

\* The inner loop over the directory segments pathParts[0 .. length-2]
\* (1-based: k from 1 to Len(pathParts) - 1).
RECURSIVE folderSegments(_, _, _, _, _, _)
folderSegments(pathParts, k, lowerQuery, directoryMap, workspaceRoot, results) ==
    IF k > Len(pathParts) - 1 THEN results
    ELSE LET dirPart      == pathParts[k]
             dirPathSoFar == join(SubSeq(pathParts, 1, k), sep)
             push == /\ dirPathSoFar \in DOMAIN directoryMap
                     /\ includes(toLowerCase(dirPart), lowerQuery)
                     /\ dirPathSoFar \notin seenPaths(results, "folder")
             r == IF push
                  THEN results \o << FileSuggestion(dirPart,
                                        pathJoin(workspaceRoot, dirPathSoFar),
                                        dirPathSoFar, "folder") >>
                  ELSE results
         IN  folderSegments(pathParts, k + 1, lowerQuery, directoryMap,
                            workspaceRoot, r)

\* filterFromCache without its folder loop (lines 499-539).
folderLoop_skipped(files, i, lowerQuery, currentPath, directoryMap, workspaceRoot, results) ==
    results

\* The folder loop from index i on, with its break at MAX_RESULTS.
RECURSIVE folderLoop(_, _, _, _, _, _, _)
folderLoop(files, i, lowerQuery, currentPath, directoryMap, workspaceRoot, results) ==
    IF i > Len(files) \/ Len(results) >= MAX_RESULTS THEN results
    ELSE IF ~inScope(files[i], currentPath)
    THEN folderLoop(files, i + 1, lowerQuery, currentPath, directoryMap,
                    workspaceRoot, results)
    ELSE folderLoop(files, i + 1, lowerQuery, currentPath, directoryMap,
                    workspaceRoot,
                    folderSegments(split(files[i].relativePath, sep), 1,
                                   lowerQuery, directoryMap, workspaceRoot,
                                   results))

\* The candidates both loops collected, before sorting.
filterCandidates(cd, workspaceRoot, query, currentPath) ==
    LET lowerQuery == toLowerCase(query)
        afterFiles == fileLoop(cd.files, 1, lowerQuery, currentPath, << >>)
    IN  folderLoop(cd.files, 1, lowerQuery, currentPath, cd.directoryMap,
                   workspaceRoot, afterFiles)

\* filterFromCache without the slice after the sort.
filterFromCache_noSlice(cd, workspaceRoot, query, currentPath) ==
    IF ~cd.present THEN << >>
    ELSE sortStable(filterCandidates(cd, workspaceRoot, query, currentPath),
                    [kind |-> "rank", lowerQuery |-> toLowerCase(query)])

filterFromCache(cd, workspaceRoot, query, currentPath) ==
    IF ~cd.present THEN << >>
    ELSE slice(sortStable(filterCandidates(cd, workspaceRoot, query, currentPath),
                          [kind |-> "rank", lowerQuery |-> toLowerCase(query)]),
               MAX_RESULTS)

(***************************************************************************)
(* getDirectoryContents and getDirectoryContentsFs                         *)
(***************************************************************************)

\* subdirOf that takes the whole directory of the file instead of the
\* first segment below currentPath.
subdirOf_wholeDir(file, currentPath) ==
    LET fileDir == dirname(file.relativePath)
    IN  IF currentPath = << >>
        THEN (IF fileDir = << "." >> THEN << >> ELSE fileDir)
        ELSE IF startsWith(fileDir, currentPath \o << sep >>)
             THEN fileDir ELSE << >>

\* The subdirectory of currentPath one file contributes to subdirs, or the
\* empty string when it contributes none.
subdirOf(file, currentPath) ==
    LET filePath == file.relativePath
        fileDir  == dirname(filePath)
    IN  IF currentPath = << >>
        THEN LET pathParts == split(filePath, sep)
             IN  IF Len(pathParts) > 1 /\ pathParts[1] # << >>
                    /\ pathParts[1] # << "." >>
                 THEN pathParts[1] ELSE << >>
        ELSE IF startsWith(fileDir, currentPath \o << sep >>)
             THEN LET relativeToCurrent == substring(fileDir, Len(currentPath) + 1)
                      firstSubdir == split(relativeToCurrent, sep)[1]
                  IN  IF firstSubdir # << >>
                      THEN pathJoin(currentPath, firstSubdir) ELSE << >>
             ELSE << >>

\* filesInDir: the relative paths of directoryMap.get(dirKey), as a Set.
filesInDirOf(cd, currentPath) ==
    LET dirKey == IF currentPath = << >> THEN << "." >> ELSE currentPath
    IN  IF dirKey \in DOMAIN cd.directoryMap
        THEN dedup([i \in 1..Len(cd.directoryMap[dirKey]) |->
                       cd.directoryMap[dirKey][i].relativePath])
        ELSE << >>

\* subdirs without the deletion of lines 354-356.
subdirsOf_keepsFiles(cd, currentPath) ==
    dedup(SelectSeq([i \in 1..Len(cd.files) |-> subdirOf(cd.files[i], currentPath)],
                    LAMBDA d : d # << >>))

\* subdirs after the paths of filesInDir have been deleted from it.
subdirsOf(cd, currentPath) ==
    LET cands == [i \in 1..Len(cd.files) |-> subdirOf(cd.files[i], currentPath)]
        inDir == Range(filesInDirOf(cd, currentPath))
    IN  SelectSeq(dedup(SelectSeq(cands, LAMBDA d : d # << >>)),
                  LAMBDA d : d \notin inDir)

\* The fallback test without its second disjunct: only a snapshot near
\* the cap sends a browse to the file system.
useFsListing_lazyLoadOnly(cd, currentPath) ==
    Len(cd.files) * 10 >= MAX_CACHE_FILES * 9

\* shouldLazyLoad || (!cachedFiles && subdirs.size === 0)
useFsListing(cd, currentPath) ==
    LET dirKey == IF currentPath = << >> THEN << "." >> ELSE currentPath
    IN  \/ Len(cd.files) * 10 >= MAX_CACHE_FILES * 9
        \/ (dirKey \notin DOMAIN cd.directoryMap
            /\ Len(subdirsOf(cd, currentPath)) = 0)

\* this.cachedData.files.find(f => f.relativePath === relPath)
findFile(files, relPath) ==
    files[CHOOSE i \in 1..Len(files) :
              /\ files[i].relativePath = relPath
              /\ \A j \in 1..(i - 1) : files[j].relativePath # relPath]

\* getDirectoryContents that pushes the files before the folders.
directoryContentsFromCache_filesFirst(cd, workspaceRoot, currentPath) ==
    LET sortedSubdirs == sortStable(subdirsOf(cd, currentPath), [kind |-> "default"])
        folders == [i \in 1..Len(sortedSubdirs) |->
                       FileSuggestion(basename(sortedSubdirs[i]),
                                      pathJoin(workspaceRoot, sortedSubdirs[i]),
                                      sortedSubdirs[i], "folder")]
        inDir   == SelectSeq(filesInDirOf(cd, currentPath),
                       LAMBDA rel : \E i \in 1..Len(cd.files) :
                                        cd.files[i].relativePath = rel)
        found   == [i \in 1..Len(inDir) |-> findFile(cd.files, inDir[i])]
    IN  sortStable(found, [kind |-> "name"]) \o folders

\* The result getDirectoryContents builds from the snapshot.
directoryContentsFromCache(cd, workspaceRoot, currentPath) ==
    LET sortedSubdirs == sortStable(subdirsOf(cd, currentPath), [kind |-> "default"])
        folders == [i \in 1..Len(sortedSubdirs) |->
                       FileSuggestion(basename(sortedSubdirs[i]),
                                      pathJoin(workspaceRoot, sortedSubdirs[i]),
                                      sortedSubdirs[i], "folder")]
        inDir   == SelectSeq(filesInDirOf(cd, currentPath),
                       LAMBDA rel : \E i \in 1..Len(cd.files) :
                                        cd.files[i].relativePath = rel)
        found   == [i \in 1..Len(inDir) |-> findFile(cd.files, inDir[i])]
    IN  folders \o sortStable(found, [kind |-> "name"])

\* pattern.replace(/\*\*/g, '').replace(/\*/g, '') followed by
\* .replace(/\//g, ''): the pattern without "*" and without "/".
patternWithoutGlob(pattern) == SelectSeq(pattern, LAMBDA c : c # "*" /\ c # sep)

\* What the exclude glob of findFiles does to a direct child named `name`
\* of a directory: a pattern **/D/** removes everything below a directory
\* named D, so the child D never shows; a pattern **/*.ext removes the
\* children whose name ends with .ext.
enumerationExcludes(name) ==
    \E i \in 1..Len(EXCLUDE_PATTERNS) :
        LET p == EXCLUDE_PATTERNS[i]
        IN  IF SubSeq(p, Len(p) - 2, Len(p)) = << "/", "*", "*" >>
            THEN name = SubSeq(p, 4, Len(p) - 3)
            ELSE /\ Len(name) >= Len(p) - 4
                 /\ SubSeq(name, Len(name) - (Len(p) - 4) + 1, Len(name))
                       = SubSeq(p, 5, Len(p))

\* The skip test without the exclude patterns.
fsSkipped_onlyGit(name) == name = << ".", "g", "i", "t" >>

\* The entries getDirectoryContentsFs skips.
fsSkipped(name) ==
    \/ name = << ".", "g", "i", "t" >>
    \/ \E i \in 1..Len(EXCLUDE_PATTERNS) :
           includes(name, patternWithoutGlob(EXCLUDE_PATTERNS[i]))

\* path.join(currentPath, name) when currentPath is not empty.
fsRelativePath(currentPath, name) ==
    IF currentPath = << >> THEN name ELSE pathJoin(currentPath, name)

\* The result of getDirectoryContentsFs for the entries readDirectory
\* returned (a sequence of [name, isDirectory]).
directoryContentsFromFs(entries, workspaceRoot, currentPath) ==
    LET kept == SelectSeq(entries, LAMBDA e : ~fsSkipped(e.name))
        suggestions ==
            [i \in 1..Len(kept) |->
                FileSuggestion(kept[i].name,
                    pathJoin(workspaceRoot, fsRelativePath(currentPath, kept[i].name)),
                    fsRelativePath(currentPath, kept[i].name),
                    IF kept[i].isDirectory THEN "folder" ELSE "file")]
    IN  sortStable(suggestions, [kind |-> "fs"])

(***************************************************************************)
(* The engine: state                                                       *)
(***************************************************************************)

VARIABLES
    workspaceRoot,      \* this.workspaceRoot ("" when no folder is open)
    cachedData,         \* this.cachedData: NoCache or a snapshot
    cacheBuildPromise,  \* this.cacheBuildPromise: 0 (null) or the build's id
    fileSystemWatcher,  \* this.fileSystemWatcher: 0 (null) or a watcher id
    builds,             \* the pending workspace.findFiles calls
    calls,              \* the search() calls in progress
    inv,                \* the invalidateCache() call in progress
    now,                \* the value Date.now() returns
    liveWatchers,       \* watchers created and not yet disposed
    buildsMade,         \* number of enumerations started (findFiles calls)
    claudeTerminal,     \* what sendText has delivered to the terminal, in order
    timers,             \* the pending setTimeout callbacks of TerminalBridge
    clock,              \* milliseconds since activation
    history             \* HistoryManager.history

vars == << workspaceRoot, cachedData, cacheBuildPromise, fileSystemWatcher,
           builds, calls, inv, now, liveWatchers, buildsMade,
           claudeTerminal, timers, clock, history >>

\* The variables of TerminalBridge and HistoryManager, which no method of
\* FileSearchManager reads or writes.
inputVars == << claudeTerminal, timers, clock, history >>

\* Nothing sent yet, no timer pending, and an empty stored history.
InitInput ==
    /\ claudeTerminal = << >>
    /\ timers = << >>
    /\ clock = 0
    /\ history = << >>

\* Bounds of the model.
MaxBuilds == 2
MaxTicks == 1
TickStep == CACHE_TTL

Slots == {1, 2}
MaxTime == MaxTicks * TickStep

\* Workspace folders the host can have open, and what the file system
\* holds: the lists findFiles can resolve with while a folder is open and
\* the listing readDirectory can resolve with.
RootP == << "/", "p" >>
RootQ == << "/", "q" >>
NoRoot == << >>
Roots == {NoRoot, RootP, RootQ}

Scenario ==
    << << "/", "p", "/", "s", "r", "c", "/", "a", ".", "t", "s" >>,
       << "/", "p", "/", "s", "r", "c", "/", "s", "u", "b", "/", "b", ".", "t", "s" >>,
       << "/", "p", "/", "r", "e", "a", "d", "m", "e", ".", "m", "d" >> >>

FindFilesResults(root) ==
    IF root = RootP THEN {Scenario}
    ELSE IF root = RootQ
    THEN {<< << "/", "q", "/", "l", "i", "b", "/", "x", "/", "a", ".", "t", "s" >> >>}
    ELSE {<< >>}

AllFindFilesResults == UNION {FindFilesResults(root) : root \in Roots}

ReadDirResults ==
    {<< [name |-> << "x", ".", "m", "d" >>, isDirectory |-> FALSE],
        [name |-> << "d", "i", "s", "t" >>, isDirectory |-> TRUE],
        [name |-> << "a", "p", "i" >>, isDirectory |-> TRUE] >>}

\* Listings of the root of a workspace in which every entry is a directory
\* that findFiles excludes, and of one whose only directory, pkg, holds
\* nothing but an excluded directory.
ExcludedOnlyListings ==
    {<< [name |-> << "n", "o", "d", "e", "_", "m", "o", "d", "u", "l", "e", "s" >>,
         isDirectory |-> TRUE] >>,
     << [name |-> << ".", "g", "i", "t" >>, isDirectory |-> TRUE],
        [name |-> << "d", "i", "s", "t" >>, isDirectory |-> TRUE],
        [name |-> << "o", "u", "t" >>, isDirectory |-> TRUE] >>}

NestedExcludedListing ==
    << [name |-> << "p", "k", "g" >>, isDirectory |-> TRUE] >>

\* A directory whose entries have names that contain the name of an
\* excluded directory without being one, next to an ordinary file.
SubstringListing ==
    << [name |-> << "l", "a", "y", "o", "u", "t", ".", "t", "s" >>, isDirectory |-> FALSE],
       [name |-> << "b", "u", "i", "l", "d", "e", "r" >>, isDirectory |-> TRUE],
       [name |-> << "r", "o", "u", "t", "e", "s" >>, isDirectory |-> TRUE],
       [name |-> << "x", ".", "m", "d" >>, isDirectory |-> FALSE] >>

AllReadDirResults ==
    ReadDirResults \cup ExcludedOnlyListings
        \cup {NestedExcludedListing, SubstringListing}

\* Arguments of search(): browse the root, browse a directory the
\* enumeration does not know, and a query.
SearchArgs ==
    {[query |-> << >>, currentPath |-> << >>],
     [query |-> << >>, currentPath |-> << "d", "o", "c", "s" >>],
     [query |-> << "a" >>, currentPath |-> << >>]}

\* A call slot that is not in use.  pc is the point at which the call is
\* suspended: await1 (search awaits ensureCache), await2 (getDirectoryContents
\* awaits ensureCache), awaitFs (getDirectoryContentsFs awaits readDirectory),
\* or done (returned) or rejected (threw).  The remaining fields record what
\* the call did: the build it waits for (awaited), the builds it waited for
\* (joined), the enumerations it started (started), the state it was issued
\* in (startStale: a snapshot was present and expired; startBuilds: the
\* builds in flight; startOutdated, startSuperseded: the enumerations, in
\* flight or installed, that a notification or a change of root had
\* overtaken), what its result was computed from (from: noroot, absent,
\* cache or fs; snap: the build of the snapshot) and whether the snapshot
\* was absent (absentAtResult) or used although isCacheValid was false
\* (expiredAtResult) at the moment the result was produced, and the
\* listing readDirectory resolved with (listing).  previous is the
\* fileSuggestionData message the caller posted for its last call: the
\* arguments and the result of that call.
NoSuggestions ==
    [posted |-> FALSE, query |-> << >>, currentPath |-> << >>,
     result |-> << >>, from |-> "none"]

IdleCall ==
    [pc |-> "idle", query |-> << >>, currentPath |-> << >>,
     awaited |-> 0, joined |-> {}, started |-> {},
     startStale |-> FALSE, startBuilds |-> {}, startOutdated |-> {},
     startSuperseded |-> {}, result |-> << >>, from |-> "none", snap |-> 0,
     absentAtResult |-> FALSE, expiredAtResult |-> FALSE,
     listing |-> << >>, previous |-> NoSuggestions]

\* The invalidateCache() call: idle, awaitInv (suspended in ensureCache) or
\* done, with the same bookkeeping (hadRoot: a folder was open at the call).
IdleInv ==
    [pc |-> "idle", awaited |-> 0, joined |-> {}, started |-> {},
     startBuilds |-> {}, hadRoot |-> FALSE]

\* setupFileSystemWatcher for the root `root` when `live` watchers exist:
\* the new values of fileSystemWatcher and liveWatchers.  A new watcher is
\* named by the smallest number that names neither a live watcher nor the
\* watcher `old` the caller has just replaced.  created = FALSE:
\* createFileSystemWatcher throws, which the method swallows.
setupFileSystemWatcher(root, current, live, old, created) ==
    IF root = NoRoot \/ ~created
    THEN [watcher |-> current, live |-> live]
    ELSE LET used == live \cup {old}
             w == CHOOSE n \in 1..(Cardinality(used) + 1) :
                      n \notin used /\ \A m \in 1..(n - 1) : m \in used
         IN  [watcher |-> w, live |-> live \cup {w}]

\* Constructor: root from the host's first folder, then setupFileSystemWatcher.
Init ==
    /\ workspaceRoot \in {NoRoot, RootP}
    /\ cachedData = NoCache
    /\ cacheBuildPromise = 0
    /\ \E created \in BOOLEAN :
        LET w == setupFileSystemWatcher(workspaceRoot, 0, {}, 0, created) IN
        /\ fileSystemWatcher = w.watcher
        /\ liveWatchers = w.live
    /\ builds = {}
    /\ calls = [s \in Slots |-> IdleCall]
    /\ inv = IdleInv
    /\ now = 0
    /\ buildsMade = 0
    /\ InitInput

(***************************************************************************)
(* buildCache, ensureCache and the turns of search()                       *)
(***************************************************************************)

\* The engine fields a turn of a call can change.
EngineState == [cd |-> cachedData, promise |-> cacheBuildPromise,
                builds |-> builds, made |-> buildsMade, now |-> now]

inFlight(bs, id) == \E b \in bs : b.id = id

\* buildCache without lines 124-127: a call that finds a build in flight
\* starts an enumeration of its own.
buildCache_startsOwn(st, throws) ==
    IF workspaceRoot = NoRoot
    THEN [st |-> st, wait |-> FALSE, started |-> 0]
    ELSE [st |-> [st EXCEPT !.promise = st.made + 1, !.made = st.made + 1,
                            !.builds = @ \cup {[id |-> st.made + 1,
                                                root |-> workspaceRoot,
                                                outdated |-> FALSE,
                                                superseded |-> FALSE,
                                                disposed |-> FALSE]}],
          wait |-> TRUE, started |-> st.made + 1]

\* buildCache up to its await.  wait: the caller is suspended on a pending
\* findFiles.  throws: findFiles throws before returning a promise, so the
\* catch and finally blocks run before the assignment to cacheBuildPromise.
buildCache(st, throws) ==
    IF workspaceRoot = NoRoot
    THEN [st |-> st, wait |-> FALSE, started |-> 0]
    ELSE IF st.promise # 0
    THEN [st |-> st, wait |-> inFlight(st.builds, st.promise), started |-> 0]
    ELSE IF throws
    THEN [st |-> [st EXCEPT !.cd = NoCache, !.promise = st.made + 1,
                            !.made = st.made + 1],
          wait |-> FALSE, started |-> st.made + 1]
    ELSE [st |-> [st EXCEPT !.promise = st.made + 1, !.made = st.made + 1,
                            !.builds = @ \cup {[id |-> st.made + 1,
                                                root |-> workspaceRoot,
                                                outdated |-> FALSE,
                                                superseded |-> FALSE,
                                                disposed |-> FALSE]}],
          wait |-> TRUE, started |-> st.made + 1]

noteStarted(c, b) ==
    IF b.started = 0 THEN c ELSE [c EXCEPT !.started = @ \cup {b.started}]

suspendOn(c, pc, b) ==
    [noteStarted(c, b) EXCEPT !.pc = pc, !.awaited = b.st.promise,
                              !.joined = @ \cup {b.st.promise}]

returns(c, cd, t, result, from) ==
    [c EXCEPT !.pc = "done", !.awaited = 0, !.result = result, !.from = from,
              !.snap = IF from = "cache" THEN cd.build ELSE 0,
              !.absentAtResult = ~cd.present,
              !.expiredAtResult = (from = "cache" /\ ageReachedTTL(cd, t))]

\* getDirectoryContents after its await of ensureCache (lines 299-391):
\* a listing from the file system, or the result from the snapshot.
afterEnsure2(c, st) ==
    IF ~st.cd.present \/ useFsListing(st.cd, c.currentPath)
    THEN [st |-> st, call |-> [c EXCEPT !.pc = "awaitFs", !.awaited = 0]]
    ELSE [st |-> st,
          call |-> returns(c, st.cd, st.now,
                       directoryContentsFromCache(st.cd, workspaceRoot, c.currentPath),
                       "cache")]

\* search after its await of ensureCache (lines 279-289).  The second
\* ensureCache, in getDirectoryContents, reads the clock again: dt is what
\* the clock advanced since the first read.
afterEnsure1(c, st, dt, throws) ==
    IF ~st.cd.present
    THEN [st |-> st, call |-> returns(c, st.cd, st.now, << >>, "absent")]
    ELSE IF c.query # << >>
    THEN [st |-> st,
          call |-> returns(c, st.cd, st.now,
                       filterFromCache(st.cd, workspaceRoot, c.query, c.currentPath),
                       "cache")]
    ELSE LET st2 == [st EXCEPT !.now = @ + dt] IN
         IF isCacheValid(st2.cd, st2.now)
         THEN afterEnsure2(c, st2)
         ELSE LET b == buildCache(st2, throws) IN
              IF b.wait
              THEN [st |-> b.st, call |-> suspendOn(c, "await2", b)]
              ELSE afterEnsure2(noteStarted(c, b), b.st)

\* search without lines 273-275: a call made while no folder is open goes
\* on to ensureCache.
searchTurn_skipsRootCheck(c, st, dt, throws) ==
    IF isCacheValid(st.cd, st.now)
    THEN afterEnsure1(c, st, dt, throws)
    ELSE LET b == buildCache(st, throws) IN
         IF b.wait
         THEN [st |-> b.st, call |-> suspendOn(c, "await1", b)]
         ELSE afterEnsure1(noteStarted(c, b), b.st, dt, throws)

\* search whose ensureCache builds whether or not the snapshot is valid.
searchTurn_alwaysBuilds(c, st, dt, throws) ==
    IF workspaceRoot = NoRoot
    THEN [st |-> st, call |-> returns(c, st.cd, st.now, << >>, "noroot")]
    ELSE LET b == buildCache(st, throws) IN
         IF b.wait
         THEN [st |-> b.st, call |-> suspendOn(c, "await1", b)]
         ELSE afterEnsure1(noteStarted(c, b), b.st, dt, throws)

\* search from its first line to its first suspension or its return.
searchTurn(c, st, dt, throws) ==
    IF workspaceRoot = NoRoot
    THEN [st |-> st, call |-> returns(c, st.cd, st.now, << >>, "noroot")]
    ELSE IF isCacheValid(st.cd, st.now)
    THEN afterEnsure1(c, st, dt, throws)
    ELSE LET b == buildCache(st, throws) IN
         IF b.wait
         THEN [st |-> b.st, call |-> suspendOn(c, "await1", b)]
         ELSE afterEnsure1(noteStarted(c, b), b.st, dt, throws)

\* invalidateCache without line 662: the snapshot is kept, and ensureCache
\* builds only when it is not valid.
invalidateTurn_keepsSnapshot(c, st, throws) ==
    IF isCacheValid(st.cd, st.now)
    THEN [st |-> st, call |-> [c EXCEPT !.pc = "done"]]
    ELSE LET b  == buildCache(st, throws)
             c2 == IF b.started = 0 THEN c ELSE [c EXCEPT !.started = {b.started}]
         IN  IF b.wait
             THEN [st |-> b.st,
                   call |-> [c2 EXCEPT !.pc = "awaitInv", !.awaited = b.st.promise,
                                       !.joined = {b.st.promise}]]
             ELSE [st |-> b.st, call |-> [c2 EXCEPT !.pc = "done"]]

\* invalidateCache from its first line to its suspension or its return.
invalidateTurn(c, st, throws) ==
    LET b  == buildCache([st EXCEPT !.cd = NoCache], throws)
        c2 == IF b.started = 0 THEN c ELSE [c EXCEPT !.started = {b.started}]
    IN  IF b.wait
        THEN [st |-> b.st,
              call |-> [c2 EXCEPT !.pc = "awaitInv", !.awaited = b.st.promise,
                                  !.joined = {b.st.promise}]]
        ELSE [st |-> b.st, call |-> [c2 EXCEPT !.pc = "done"]]

\* A search resumed by the end of the build it awaited.  The snapshot, when
\* the build installed one, is valid at this moment, so the second
\* ensureCache of the browse path starts nothing here.
resume(c, st) ==
    IF c.pc = "await1" THEN afterEnsure1(c, st, 0, FALSE).call
    ELSE afterEnsure2(c, st).call

\* The enumerations, pending or installed, that a notification (a change of
\* root) has overtaken.
outdatedBuilds ==
    {b.id : b \in {x \in builds : x.outdated}}
        \cup (IF cachedData.present /\ cachedData.outdated
              THEN {cachedData.build} ELSE {})

supersededBuilds ==
    {b.id : b \in {x \in builds : x.superseded}}
        \cup (IF cachedData.present /\ cachedData.superseded
              THEN {cachedData.build} ELSE {})

newCall(query, currentPath, previous) ==
    [IdleCall EXCEPT !.query = query, !.currentPath = currentPath,
                     !.previous = previous,
                     !.startStale = ageReachedTTL(cachedData, now),
                     !.startBuilds = {b.id : b \in builds},
                     !.startOutdated = outdatedBuilds,
                     !.startSuperseded = supersededBuilds]

(***************************************************************************)
(* The engine: actions                                                     *)
(***************************************************************************)

\* dt is read only by the second clock read of the browse path, and only
\* a snapshot that is present and not yet expired can tell the time.
clockMatters == cachedData.present /\ isCacheValid(cachedData, now)

\* The continuation of the caller of a call that returned runs in the turn
\* in which the call returned, before any other event is handled.
noneReturned == inv.pc # "done" /\ \A s \in Slots : calls[s].pc # "done"

\* A caller invokes search(query, currentPath) in a free slot; the slots
\* are taken in order.
Search(s, query, currentPath, dt, throws) ==
    /\ noneReturned
    /\ calls[s].pc = "idle"
    /\ \A t \in Slots : t < s => calls[t].pc # "idle"
    /\ buildsMade < MaxBuilds
    /\ dt # 0 => (clockMatters /\ query = << >> /\ now + dt <= MaxTime)
    /\ \E r \in {searchTurn(newCall(query, currentPath, calls[s].previous),
                             EngineState, dt, throws)} :
           /\ cachedData' = r.st.cd
           /\ cacheBuildPromise' = r.st.promise
           /\ builds' = r.st.builds
           /\ buildsMade' = r.st.made
           /\ now' = r.st.now
           /\ calls' = [calls EXCEPT ![s] = r.call]
    /\ UNCHANGED << inputVars, workspaceRoot, fileSystemWatcher, inv, liveWatchers >>

\* A caller invokes invalidateCache().
InvalidateCache(throws) ==
    /\ noneReturned
    /\ inv.pc = "idle"
    /\ buildsMade < MaxBuilds
    /\ \E r \in {invalidateTurn([IdleInv EXCEPT
                                     !.startBuilds = {b.id : b \in builds},
                                     !.hadRoot = workspaceRoot # NoRoot],
                                 EngineState, throws)} :
           /\ cachedData' = r.st.cd
           /\ cacheBuildPromise' = r.st.promise
           /\ builds' = r.st.builds
           /\ buildsMade' = r.st.made
           /\ inv' = r.call
    /\ UNCHANGED << inputVars, workspaceRoot, fileSystemWatcher, calls, now, liveWatchers >>

\* finishBuild in which the calls that awaited the build continue before
\* the snapshot is installed.
finishBuild_resumesFirst(b, cd) ==
    LET st == [EngineState EXCEPT !.promise = 0, !.builds = builds \ {b}]
    IN  /\ cachedData' = cd
        /\ cacheBuildPromise' = 0
        /\ builds' = builds \ {b}
        /\ calls' = [s \in Slots |->
                        IF calls[s].pc \in {"await1", "await2"}
                           /\ calls[s].awaited = b.id
                        THEN resume(calls[s], st) ELSE calls[s]]
        /\ inv' = IF inv.pc = "awaitInv" /\ inv.awaited = b.id
                  THEN [inv EXCEPT !.pc = "done", !.awaited = 0] ELSE inv
        /\ UNCHANGED << inputVars, workspaceRoot, fileSystemWatcher, now, liveWatchers,
                        buildsMade >>

\* workspace.findFiles settles for build b: the rest of the build (lines
\* 142-205) and the continuations of every call that awaited it.
finishBuild(b, cd) ==
    LET st == [EngineState EXCEPT !.cd = cd, !.promise = 0,
                                  !.builds = builds \ {b}]
    IN  /\ cachedData' = cd
        /\ cacheBuildPromise' = 0
        /\ builds' = builds \ {b}
        /\ calls' = [s \in Slots |->
                        IF calls[s].pc \in {"await1", "await2"}
                           /\ calls[s].awaited = b.id
                        THEN resume(calls[s], st) ELSE calls[s]]
        /\ inv' = IF inv.pc = "awaitInv" /\ inv.awaited = b.id
                  THEN [inv EXCEPT !.pc = "done", !.awaited = 0] ELSE inv
        /\ UNCHANGED << inputVars, workspaceRoot, fileSystemWatcher, now, liveWatchers,
                        buildsMade >>

BuildSucceeds(b, uris) ==
    /\ noneReturned
    /\ b \in builds
    /\ uris \in FindFilesResults(b.root)
    /\ finishBuild(b, snapshotOf(workspaceRoot, uris, now, b))

\* findFiles rejects: the catch block.
BuildFails(b) ==
    /\ noneReturned
    /\ b \in builds
    /\ finishBuild(b, NoCache)

\* workspace.fs.readDirectory settles for a call in getDirectoryContentsFs.
ReadDirectorySucceeds(s, entries) ==
    /\ noneReturned
    /\ calls[s].pc = "awaitFs"
    /\ entries \in AllReadDirResults
    /\ calls' = [calls EXCEPT ![s] =
                    [returns(@, cachedData, now,
                             directoryContentsFromFs(entries, workspaceRoot,
                                                     @.currentPath), "fs")
                        EXCEPT !.listing = entries]]
    /\ UNCHANGED << inputVars, workspaceRoot, cachedData, cacheBuildPromise,
                    fileSystemWatcher, builds, inv, now, liveWatchers,
                    buildsMade >>

\* readDirectory rejects and getDirectoryContentsFs has no catch block:
\* the rejection reaches the caller of search.
ReadDirectoryFails_rejects(s) ==
    /\ noneReturned
    /\ calls[s].pc = "awaitFs"
    /\ calls' = [calls EXCEPT ![s] = [@ EXCEPT !.pc = "rejected"]]
    /\ UNCHANGED << inputVars, workspaceRoot, cachedData, cacheBuildPromise,
                    fileSystemWatcher, builds, inv, now, liveWatchers,
                    buildsMade >>

\* readDirectory rejects: the catch block returns [].
ReadDirectoryFails(s) ==
    /\ noneReturned
    /\ calls[s].pc = "awaitFs"
    /\ calls' = [calls EXCEPT ![s] = returns(@, cachedData, now, << >>, "fs")]
    /\ UNCHANGED << inputVars, workspaceRoot, cachedData, cacheBuildPromise,
                    fileSystemWatcher, builds, inv, now, liveWatchers,
                    buildsMade >>

\* The caller's continuation has run: the slot is free again.
Return(s) ==
    /\ calls[s].pc = "done"
    /\ calls' = [calls EXCEPT ![s] = IdleCall]
    /\ UNCHANGED << inputVars, workspaceRoot, cachedData, cacheBuildPromise,
                    fileSystemWatcher, builds, inv, now, liveWatchers,
                    buildsMade >>

\* The caller's continuation has run and the webview holds the
\* suggestions it posted.
PostSuggestions(s) ==
    /\ calls[s].pc = "done"
    /\ calls' = [calls EXCEPT ![s] =
                    [IdleCall EXCEPT !.previous =
                        [posted |-> TRUE, query |-> calls[s].query,
                         currentPath |-> calls[s].currentPath,
                         result |-> calls[s].result, from |-> calls[s].from]]]
    /\ UNCHANGED << inputVars, workspaceRoot, cachedData, cacheBuildPromise,
                    fileSystemWatcher, builds, inv, now, liveWatchers,
                    buildsMade >>

ReturnInvalidate ==
    /\ inv.pc = "done"
    /\ inv' = IdleInv
    /\ UNCHANGED << inputVars, workspaceRoot, cachedData, cacheBuildPromise,
                    fileSystemWatcher, builds, calls, now, liveWatchers,
                    buildsMade >>

\* invalidateCacheQuietly that leaves the snapshot in place.
invalidateCacheQuietly_keeps == cachedData' = cachedData

\* invalidateCacheQuietly.
invalidateCacheQuietly == cachedData' = NoCache

\* onDidCreate / onDidDelete / onDidChange of a live watcher.  Every
\* pending enumeration began before this notification.
WatcherNotification ==
    /\ noneReturned
    /\ liveWatchers # {}
    /\ invalidateCacheQuietly
    /\ builds' = {[b EXCEPT !.outdated = TRUE] : b \in builds}
    /\ UNCHANGED << inputVars, workspaceRoot, cacheBuildPromise, fileSystemWatcher,
                    calls, inv, now, liveWatchers, buildsMade >>

\* The watcher is dropped without a call of its dispose().
disposeWatcher_leaks == liveWatchers

\* this.fileSystemWatcher.dispose() in refreshWorkspace and dispose.
disposeWatcher ==
    IF fileSystemWatcher # 0 THEN liveWatchers \ {fileSystemWatcher}
    ELSE liveWatchers

\* The host's first workspace folder is `root`, and refreshWorkspace runs.
\* Every pending enumeration began under the root it replaces.
RefreshWorkspace(root, created) ==
    /\ noneReturned
    /\ root \in Roots
    /\ \E w \in {setupFileSystemWatcher(root, 0, disposeWatcher,
                                         fileSystemWatcher, created)} :
        /\ fileSystemWatcher' = w.watcher
        /\ liveWatchers' = w.live
    /\ workspaceRoot' = root
    /\ cachedData' = NoCache
    /\ builds' = IF root # workspaceRoot
                 THEN {[b EXCEPT !.superseded = TRUE] : b \in builds}
                 ELSE builds
    /\ UNCHANGED << inputVars, cacheBuildPromise, calls, inv, now, buildsMade >>

\* dispose().  Every pending enumeration began before this disposal.
Dispose ==
    /\ noneReturned
    /\ liveWatchers' = disposeWatcher
    /\ fileSystemWatcher' = 0
    /\ cachedData' = NoCache
    /\ builds' = {[b EXCEPT !.disposed = TRUE] : b \in builds}
    /\ UNCHANGED << inputVars, workspaceRoot, cacheBuildPromise, calls, inv, now,
                    buildsMade >>

\* Time passes between two turns.
Tick ==
    /\ noneReturned
    /\ clockMatters
    /\ now + TickStep <= MaxTime
    /\ now' = now + TickStep
    /\ UNCHANGED << inputVars, workspaceRoot, cachedData, cacheBuildPromise,
                    fileSystemWatcher, builds, calls, inv, liveWatchers,
                    buildsMade >>

Next ==
    \/ \E s \in Slots, a \in SearchArgs, dt \in {0, TickStep} :
          Search(s, a.query, a.currentPath, dt, FALSE)
    \/ InvalidateCache(FALSE)
    \/ \E b \in builds, uris \in AllFindFilesResults : BuildSucceeds(b, uris)
    \/ \E b \in builds : BuildFails(b)
    \/ \E s \in Slots, entries \in ReadDirResults : ReadDirectorySucceeds(s, entries)
    \/ \E s \in Slots : ReadDirectoryFails(s)
    \/ \E s \in Slots : Return(s)
    \/ ReturnInvalidate
    \/ WatcherNotification
    \/ \E root \in Roots, created \in BOOLEAN : RefreshWorkspace(root, created)
    \/ Dispose
    \/ Tick

Spec == Init /\ [][Next]_vars

\* The arguments that take search() through each of its suspension points:
\* a directory listed from the file system, and a query.
FairSearchArgs == {a \in SearchArgs : a.currentPath # << >> \/ a.query # << >>}

\* search() calls interleaved with the events of the engine, without
\* invalidateCache() and without the passing of time between turns (the
\* clock still advances inside a call), where every pending findFiles and
\* readDirectory settles and the caller of a call that returned continues.
NextFair ==
    \/ \E s \in Slots, a \in FairSearchArgs, dt \in {0, TickStep} :
          Search(s, a.query, a.currentPath, dt, FALSE)
    \/ \E b \in builds, uris \in AllFindFilesResults : BuildSucceeds(b, uris)
    \/ \E b \in builds : BuildFails(b)
    \/ \E s \in Slots, entries \in ReadDirResults : ReadDirectorySucceeds(s, entries)
    \/ \E s \in Slots : ReadDirectoryFails(s)
    \/ \E s \in Slots : Return(s)
    \/ WatcherNotification
    \/ \E root \in {NoRoot, RootP} : RefreshWorkspace(root, TRUE)
    \/ Dispose

FairSpec ==
    /\ Init
    /\ [][NextFair]_vars
    /\ SF_vars(\E b \in builds :
                  \/ BuildFails(b)
                  \/ \E uris \in AllFindFilesResults : BuildSucceeds(b, uris))
    /\ \A s \in Slots :
          /\ SF_vars(\/ ReadDirectoryFails(s)
                     \/ \E entries \in ReadDirResults :
                            ReadDirectorySucceeds(s, entries))
          /\ WF_vars(Return(s))

(***************************************************************************)
(* The engine when findFiles can throw                                     *)
(***************************************************************************)

\* The behaviours in which vscode.workspace.findFiles can also throw
\* before it returns a promise (throws = TRUE): the body of the async
\* function of buildCache then runs to its end, catch and finally
\* included, before its promise is assigned to cacheBuildPromise.
NextThrows ==
    \/ \E s \in Slots, throws \in BOOLEAN :
          Search(s, << "a" >>, << >>, 0, throws)
    \/ \E throws \in BOOLEAN : InvalidateCache(throws)
    \/ \E b \in builds, uris \in AllFindFilesResults : BuildSucceeds(b, uris)
    \/ \E b \in builds : BuildFails(b)
    \/ \E s \in Slots : Return(s)
    \/ ReturnInvalidate
    \/ WatcherNotification

SpecThrows == Init /\ [][NextThrows]_vars
(***************************************************************************)
(* search() against a fixed snapshot                                       *)
(***************************************************************************)

\* Bound: the largest number of generated files in a workspace.
MaxFill == 52

Digits == << "0", "1", "2", "3", "4", "5", "6", "7", "8", "9" >>

\* The workspace /p with the file ab/ac/a00 and the files a01 .. a<n>.
filledWorkspace(n) ==
    << << "/", "p", "/", "a", "b", "/", "a", "c", "/", "a", "0", "0" >> >>
      \o [i \in 1..n |->
            << "/", "p", "/", "a", Digits[(i \div 10) + 1], Digits[(i % 10) + 1] >>]

\* A workspace whose folder and file names differ in case.
MixedCaseWorkspace ==
    << << "/", "p", "/", "B", "/", "c" >>,
       << "/", "p", "/", "a", "/", "c" >>,
       << "/", "p", "/", "A", "b" >>,
       << "/", "p", "/", "a", "a" >> >>

\* An enumeration that reports ab as a file and a file inside ab: findFiles
\* is not atomic (ab was replaced by a directory while the enumeration ran)
\* and the code provides for the case (lines 352-356 and 522-524).
CollidingWorkspace ==
    << << "/", "p", "/", "a", "b" >>,
       << "/", "p", "/", "a", "b", "/", "c" >> >>

\* A workspace in which the query b has an exact match (the file b), a
\* folder match (bb) and files that only contain it.
RankWorkspace ==
    << << "/", "p", "/", "a", "b" >>,
       << "/", "p", "/", "b" >>,
       << "/", "p", "/", "b", "b", "/", "c" >> >>

FilterWorkspaces ==
    {filledWorkspace(n) : n \in 0..MaxFill}
        \cup {Scenario, MixedCaseWorkspace, CollidingWorkspace, RankWorkspace}

FilterArgs ==
    {[query |-> << "a" >>, currentPath |-> << >>],
     [query |-> << "A" >>, currentPath |-> << >>],
     [query |-> << "a", "b" >>, currentPath |-> << >>],
     [query |-> << "a", "0" >>, currentPath |-> << >>],
     [query |-> << "a" >>, currentPath |-> << "a", "b" >>],
     [query |-> << >>, currentPath |-> << >>],
     [query |-> << >>, currentPath |-> << "s", "r", "c" >>],
     [query |-> << >>, currentPath |-> << "a", "b" >>],
     [query |-> << "a" >>, currentPath |-> << "a", "b", "/", "a", "c" >>],
     [query |-> << "b", "/", "a" >>, currentPath |-> << >>],
     [query |-> << "b" >>, currentPath |-> << >>],
     [query |-> << "c" >>, currentPath |-> << >>],
     [query |-> << "s", "r", "c" >>, currentPath |-> << >>]}

\* The engine right after a build has installed the snapshot of one of the
\* workspaces.
InitFilter ==
    /\ workspaceRoot = RootP
    /\ \E uris \in FilterWorkspaces :
           cachedData = snapshotOf(RootP, uris, 0,
                            [id |-> 1, outdated |-> FALSE, superseded |-> FALSE,
                             disposed |-> FALSE])
    /\ cacheBuildPromise = 0
    /\ fileSystemWatcher = 1
    /\ liveWatchers = {1}
    /\ builds = {}
    /\ calls = [s \in Slots |-> IdleCall]
    /\ inv = IdleInv
    /\ now = 0
    /\ buildsMade = 1
    /\ InitInput

NextFilter ==
    \/ \E a \in FilterArgs : Search(1, a.query, a.currentPath, 0, FALSE)
    \/ Return(1)

SpecFilter == InitFilter /\ [][NextFilter]_vars


(***************************************************************************)
(* Repeated browsing of a fixed snapshot                                   *)
(***************************************************************************)

\* The enumerations: no file at all (everything is excluded), the
\* scenario, and a single nested file.
BrowseWorkspaces == {<< >>, Scenario, filledWorkspace(0)}

\* search("", scope) for the root, a directory of the scenario and a
\* directory no enumeration knows.
BrowseArgs ==
    {[query |-> << >>, currentPath |-> << >>],
     [query |-> << >>, currentPath |-> << "s", "r", "c" >>],
     [query |-> << >>, currentPath |-> << "d", "o", "c", "s" >>]}

\* The engine right after a build has installed the snapshot of one of the
\* enumerations; the webview holds no suggestions yet.
InitBrowse ==
    /\ workspaceRoot = RootP
    /\ \E uris \in BrowseWorkspaces :
           cachedData = snapshotOf(RootP, uris, 0,
                            [id |-> 1, outdated |-> FALSE, superseded |-> FALSE,
                             disposed |-> FALSE])
    /\ cacheBuildPromise = 0
    /\ fileSystemWatcher = 1
    /\ liveWatchers = {1}
    /\ builds = {}
    /\ calls = [s \in Slots |-> IdleCall]
    /\ inv = IdleInv
    /\ now = 0
    /\ buildsMade = 1
    /\ InitInput

\* One caller browses again and again; nothing invalidates the snapshot,
\* the clock stands still and no build runs.
NextBrowse ==
    \/ \E a \in BrowseArgs : Search(1, a.query, a.currentPath, 0, FALSE)
    \/ \E entries \in AllReadDirResults : ReadDirectorySucceeds(1, entries)
    \/ ReadDirectoryFails(1)
    \/ PostSuggestions(1)

SpecBrowse == InitBrowse /\ [][NextBrowse]_vars

(***************************************************************************)
(* Browsing at the lazy-load threshold                                     *)
(***************************************************************************)

\* MAX_CACHE_FILES * 0.9
LazyLoadThreshold == (MAX_CACHE_FILES * 9) \div 10

\* The workspace /p with n files: a00001, a00002, ... and ab/c.
largeWorkspace(n) ==
    [i \in 1..(n - 1) |->
        << "/", "p", "/", "a",
           Digits[((i \div 10000) % 10) + 1], Digits[((i \div 1000) % 10) + 1],
           Digits[((i \div 100) % 10) + 1], Digits[((i \div 10) % 10) + 1],
           Digits[(i % 10) + 1] >>]
      \o << << "/", "p", "/", "a", "b", "/", "c" >> >>

\* Small enumerations, and the enumerations one file below the threshold
\* and at it.
SmallWorkspaces ==
    {filledWorkspace(n) : n \in 0..MaxFill}
        \cup {<< >>, Scenario, CollidingWorkspace, MixedCaseWorkspace}

LazyLoadWorkspaces ==
    {largeWorkspace(LazyLoadThreshold - 1), largeWorkspace(LazyLoadThreshold)}
        \cup SmallWorkspaces

\* search("", "ab"): ab is a directory of the large and of the filled
\* workspaces, and unknown to the others.
LazyLoadArgs ==
    {[query |-> << >>, currentPath |-> << "a", "b" >>]}

InitLazyLoad ==
    /\ workspaceRoot = RootP
    /\ \E uris \in SmallWorkspaces :
           cachedData = snapshotOf(RootP, uris, 0,
                            [id |-> 1, outdated |-> FALSE, superseded |-> FALSE,
                             disposed |-> FALSE])
    /\ cacheBuildPromise = 0
    /\ fileSystemWatcher = 1
    /\ liveWatchers = {1}
    /\ builds = {}
    /\ calls = [s \in Slots |-> IdleCall]
    /\ inv = IdleInv
    /\ now = 0
    /\ buildsMade = 1
    /\ InitInput

\* findFiles resolves with the enumeration of a workspace of any size.
BuildSucceedsWith(b, uris) ==
    /\ noneReturned
    /\ b \in builds
    /\ finishBuild(b, snapshotOf(workspaceRoot, uris, now, b))

\* One caller browses; a watcher notification drops the snapshot, and the
\* build that the next call starts succeeds or fails.
NextLazyLoad ==
    \/ \E a \in LazyLoadArgs : Search(1, a.query, a.currentPath, 0, FALSE)
    \/ WatcherNotification
    \/ \E b \in builds, uris \in LazyLoadWorkspaces : BuildSucceedsWith(b, uris)
    \/ \E b \in builds : BuildFails(b)
    \/ \E entries \in ReadDirResults : ReadDirectorySucceeds(1, entries)
    \/ ReadDirectoryFails(1)
    \/ Return(1)

SpecLazyLoad == InitLazyLoad /\ [][NextLazyLoad]_vars

(***************************************************************************)
(* TerminalBridge and HistoryManager                                       *)
(***************************************************************************)

\* The delay of the setTimeout that sends the Enter key.
EnterDelay == 50

\* HistoryManager.MAX_HISTORY
MAX_HISTORY == 50

\* The variables of FileSearchManager.
engineVars == << workspaceRoot, cachedData, cacheBuildPromise,
                 fileSystemWatcher, builds, calls, inv, now, liveWatchers,
                 buildsMade >>

\* The white space String.prototype.trim removes, as far as the model has
\* it.
WhiteSpace == {" ", "\t", "\n"}

\* text.trim()
trim(text) ==
    LET kept == {i \in 1..Len(text) : text[i] \notin WhiteSpace}
    IN  IF kept = {} THEN << >>
        ELSE SubSeq(text, CHOOSE i \in kept : \A j \in kept : i <= j,
                          CHOOSE i \in kept : \A j \in kept : i >= j)

\* addItem without the filter that removes the earlier entry of the text.
addItem_noFilter(items, text, timestamp) ==
    LET trimmed == trim(text)
        added   == << [text |-> trimmed, timestamp |-> timestamp] >> \o items
    IN  IF trimmed = << >> THEN items
        ELSE IF Len(added) > MAX_HISTORY THEN SubSeq(added, 1, MAX_HISTORY)
        ELSE added

\* HistoryManager.addItem: the history it leaves (and saves).
addItem(items, text, timestamp) ==
    LET trimmed  == trim(text)
        filtered == SelectSeq(items, LAMBDA item : item.text # trimmed)
        added    == << [text |-> trimmed, timestamp |-> timestamp] >> \o filtered
    IN  IF trimmed = << >> THEN items
        ELSE IF Len(added) > MAX_HISTORY THEN SubSeq(added, 1, MAX_HISTORY)
        ELSE added

\* HistoryManager.removeItem
removeItem(items, text) == SelectSeq(items, LAMBDA item : item.text # text)

\* The number of texts sendText has delivered so far.
textsSent == Cardinality({i \in 1..Len(claudeTerminal) : ~claudeTerminal[i].enter})

\* TerminalBridge.sendToClaudeTerminal(text, autoEnter) at time t, when
\* findClaudeTerminal finds a terminal (found) or none: the text is sent at
\* once, and with autoEnter a timer is set that will send the Enter key.
sendToClaudeTerminal(text, autoEnter, found, t) ==
    IF ~found
    THEN UNCHANGED << claudeTerminal, timers >>
    ELSE /\ claudeTerminal' = Append(claudeTerminal,
                                 [data |-> text, enter |-> FALSE,
                                  msg |-> textsSent + 1])
         /\ timers' = IF autoEnter
                      THEN Append(timers, [due |-> t + EnterDelay,
                                           msg |-> textsSent + 1])
                      ELSE timers

\* Bounds: the number of texts sent and the last instant a text is sent at.
MaxSends == 3
MaxClock == 100

SendTexts == {<< "a" >>, << " ", "b" >>}

\* The time that passes between one event and the next message.
SendGaps == {0, 25, 50}

\* The webview posts sendToTerminal, dt milliseconds after the previous
\* event: the handler sends the text with autoEnter and adds it to the
\* history.  A timer that is due earlier runs first.
SendToTerminal(text, found, dt) ==
    /\ textsSent < MaxSends
    /\ clock + dt <= MaxClock
    /\ \A i \in 1..Len(timers) : timers[i].due >= clock + dt
    /\ clock' = clock + dt
    /\ sendToClaudeTerminal(text, TRUE, found, clock')
    /\ history' = addItem(history, text, clock')
    /\ UNCHANGED engineVars

\* The oldest pending timer runs: claudeTerminal?.sendText('\n', false).
\* All timers have the same delay, so they run in the order they were set.
EnterTimerFires ==
    /\ timers # << >>
    /\ clock' = IF timers[1].due > clock THEN timers[1].due ELSE clock
    /\ claudeTerminal' = Append(claudeTerminal,
                             [data |-> << "\n" >>, enter |-> TRUE,
                              msg |-> timers[1].msg])
    /\ timers' = Tail(timers)
    /\ UNCHANGED << history, engineVars >>

NextTerminal ==
    \/ \E text \in SendTexts, found \in BOOLEAN, dt \in SendGaps :
          SendToTerminal(text, found, dt)
    \/ EnterTimerFires

SpecTerminal == Init /\ [][NextTerminal]_vars

\* Bounds: the number of different texts, and the history length up to
\* which entries other than the newest are added again or removed.
MaxTexts == 52
MaxReorder == 3

\* The texts m00, m01, ...
historyText(i) == << "m", Digits[(i \div 10) + 1], Digits[(i % 10) + 1] >>

\* The first of these texts that the history does not hold.
freshText(items) ==
    LET held == {items[i].text : i \in 1..Len(items)}
        free == {i \in 0..(MaxTexts - 1) : historyText(i) \notin held}
    IN  historyText(CHOOSE i \in free : \A j \in free : i <= j)

\* May entries other than the newest be added again or removed?
reorders(items) == items # << >> /\ Len(items) <= MaxReorder

\* The arguments of addItem: a new text, the empty text, white space, the
\* newest text again and the oldest text again, in white space.
AddTexts(items) ==
    {freshText(items), << >>, << " ", "\t" >>}
        \cup (IF items # << >> THEN {items[1].text} ELSE {})
        \cup (IF reorders(items)
              THEN {<< " " >> \o items[Len(items)].text \o << "\n" >>}
              ELSE {})

\* The arguments of removeItem: a text the history does not hold, the
\* newest text and the oldest text.
RemoveTexts(items) ==
    {<< "z" >>}
        \cup (IF reorders(items) THEN {items[1].text, items[Len(items)].text}
              ELSE {})

AddItem(text) ==
    /\ history' = addItem(history, text, clock)
    /\ UNCHANGED << claudeTerminal, timers, clock, engineVars >>

RemoveItem(text) ==
    /\ history' = removeItem(history, text)
    /\ UNCHANGED << claudeTerminal, timers, clock, engineVars >>

ClearHistory ==
    /\ history' = << >>
    /\ UNCHANGED << claudeTerminal, timers, clock, engineVars >>

NextHistory ==
    \/ \E text \in AddTexts(history) : AddItem(text)
    \/ \E text \in RemoveTexts(history) : RemoveItem(text)
    \/ ClearHistory

SpecHistory == Init /\ [][NextHistory]_vars
(***************************************************************************)
(* Properties                                                              *)
(***************************************************************************)

\* C1: a search() issued after a watcher notification never returns a
\* result computed from a snapshot whose enumeration began before that
\* notification, also when the notification arrived while the build was
\* in flight.
C1_NoResultFromOvertakenEnumeration ==
    \A s \in Slots :
        (calls[s].pc = "done" /\ calls[s].from = "cache")
            => calls[s].snap \notin calls[s].startOutdated

\* C2: at most one enumeration is in flight at any time, and, while a
\* workspace folder is open, a search() or invalidateCache() that arrives
\* while a build is in flight starts no enumeration and awaits that build.
C2_SingleFlight ==
    /\ Cardinality(builds) <= 1
    /\ \A s \in Slots :
          (calls[s].pc # "idle" /\ calls[s].startBuilds # {}
              /\ calls[s].from # "noroot")
            => (calls[s].started = {} /\ calls[s].joined = calls[s].startBuilds)
    /\ (inv.pc # "idle" /\ inv.startBuilds # {} /\ inv.hadRoot)
            => (inv.started = {} /\ inv.joined = inv.startBuilds)

\* A search() and an invalidateCache() both wait for a build that was in
\* flight when they arrived.
C2_Witness ==
    /\ inv.pc = "awaitInv" /\ inv.startBuilds # {}
    /\ \E s \in Slots :
          /\ calls[s].pc = "await1"
          /\ calls[s].startBuilds # {}
          /\ calls[s].awaited \in calls[s].startBuilds
          /\ calls[s].awaited = inv.awaited

\* C3: the result of a non-empty query is the MAX_RESULTS best of all
\* matching candidates (files and folders in scope) under the ranking
\* order: it holds min(MAX_RESULTS, number of candidates) candidates and no
\* candidate left out ranks before an entry of the result.
C3_ResultIsTopOfAllCandidates ==
    \A s \in Slots :
        (calls[s].pc = "done" /\ calls[s].from = "cache" /\ calls[s].query # << >>)
            => LET lowerQuery == toLowerCase(calls[s].query)
                   scoped  == {f \in Range(cachedData.files) :
                                  inScope(f, calls[s].currentPath)}
                   files   == {f \in scoped :
                                  \/ includes(toLowerCase(f.name), lowerQuery)
                                  \/ \E part \in Range(split(f.relativePath, sep)) :
                                         includes(toLowerCase(part), lowerQuery)}
                   dirs    == UNION {foldersOf(f.relativePath) : f \in scoped}
                   folders == {FileSuggestion(basename(d), pathJoin(workspaceRoot, d),
                                              d, "folder") :
                                  d \in {x \in dirs :
                                            includes(toLowerCase(basename(x)),
                                                     lowerQuery)}}
                   all == files \cup folders
                   r   == calls[s].result
                   n   == IF Cardinality(all) < MAX_RESULTS
                          THEN Cardinality(all) ELSE MAX_RESULTS
               IN  /\ Len(r) = n
                   /\ Range(r) \subseteq all
                   /\ \A c \in all \ Range(r) : \A i \in 1..Len(r) :
                          rankCompare(lowerQuery, r[i], c) <= 0

\* C4: the result of a non-empty query never has more than MAX_RESULTS
\* entries.
C4_AtMostMaxResults ==
    \A s \in Slots :
        (calls[s].pc = "done" /\ calls[s].query # << >>)
            => Len(calls[s].result) <= MAX_RESULTS

\* A query with more than MAX_RESULTS collected candidates has returned.
C4_Witness ==
    \E s \in Slots :
        /\ calls[s].pc = "done" /\ calls[s].from = "cache" /\ calls[s].query # << >>
        /\ Len(filterCandidates(cachedData, workspaceRoot, calls[s].query,
                                calls[s].currentPath)) > MAX_RESULTS
        /\ Len(calls[s].result) = MAX_RESULTS

\* C5: a build whose enumeration fails leaves the snapshot absent, and a
\* search() that produces its result while the snapshot is absent returns
\* the empty list, on the browse path as on the query path.
C5_AbsentSnapshotMeansNoResults ==
    /\ [][(\E b \in builds : BuildFails(b)) => ~cachedData'.present]_vars
    /\ [](\A s \in Slots :
            (calls[s].pc = "done" /\ calls[s].absentAtResult) => calls[s].result = << >>)

\* C6: no search() rejects, and every search() that is suspended returns.
C6_SearchReturns ==
    /\ [](\A s \in Slots : calls[s].pc # "rejected")
    /\ \A s \in Slots :
          (calls[s].pc \in {"await1", "await2", "awaitFs"}) ~> calls[s].pc = "done"

\* A search() that waited for a build and then for a directory listing
\* that failed has returned.
C6_Witness ==
    \E s \in Slots :
        /\ calls[s].pc = "done" /\ calls[s].from = "fs"
        /\ calls[s].joined # {} /\ calls[s].result = << >>

\* C7: while a workspace folder is open, a search() that begins when the
\* snapshot's age has reached the TTL and no build is in flight starts an
\* enumeration and computes its result from the snapshot of that
\* enumeration; no result is computed from a snapshot whose age has
\* reached the TTL.
C7_ExpiredSnapshotIsRebuilt ==
    \A s \in Slots :
        /\ (calls[s].pc # "idle" /\ calls[s].startStale
               /\ calls[s].startBuilds = {} /\ calls[s].from # "noroot")
             => /\ calls[s].started # {}
                /\ (calls[s].pc = "done" /\ calls[s].from = "cache")
                      => calls[s].snap \in calls[s].started
        /\ ~calls[s].expiredAtResult

\* A search() that began with an expired snapshot has returned a result
\* from the snapshot of the enumeration it started.
C7_Witness ==
    \E s \in Slots :
        /\ calls[s].pc = "done" /\ calls[s].startStale /\ calls[s].startBuilds = {}
        /\ calls[s].from = "cache" /\ calls[s].snap \in calls[s].started
        /\ calls[s].result # << >>

\* C8: while a workspace folder is open, a search() that starts while a
\* build is in flight starts no enumeration, waits for that build, and, when
\* the build installs a snapshot, does not see the snapshot absent and
\* computes from no other snapshot; so two such calls see the same one.
C8_JoinersSeeTheBuildTheyJoined ==
    \A s \in Slots :
        (calls[s].pc # "idle" /\ calls[s].startBuilds # {}
            /\ calls[s].from # "noroot")
          => /\ calls[s].started = {}
             /\ (calls[s].pc = "done" /\ calls[s].from = "cache")
                   => calls[s].snap \in calls[s].startBuilds
             /\ (calls[s].pc = "done" /\ calls[s].from = "absent")
                   => ~cachedData.present

\* Two search() calls that started during the same build have both
\* returned results from the snapshot of that build.
C8_Witness ==
    \E s, t \in Slots :
        /\ s # t /\ calls[s].pc = "done" /\ calls[t].pc = "done"
        /\ calls[s].startBuilds # {}
        /\ calls[s].startBuilds = calls[t].startBuilds
        /\ calls[s].from = "cache" /\ calls[t].from = "cache"
        /\ calls[s].snap \in calls[s].startBuilds
        /\ calls[t].snap = calls[s].snap

\* C9: a search() issued after refreshWorkspace() replaced the root never
\* returns entries of an enumeration started under the previous root.
C9_NoEntriesFromPreviousRoot ==
    \A s \in Slots :
        (calls[s].pc = "done" /\ calls[s].from = "cache" /\ calls[s].result # << >>)
            => calls[s].snap \notin calls[s].startSuperseded

\* C10: at most one watcher is live, the live watcher is the one the engine
\* refers to, and dispose() leaves no watcher live.
C10_AtMostOneLiveWatcher ==
    /\ [](/\ Cardinality(liveWatchers) <= 1
          /\ liveWatchers \subseteq {fileSystemWatcher})
    /\ [][Dispose => liveWatchers' = {}]_vars

\* refreshWorkspace() has replaced a watcher by a new one, which is the only
\* live watcher.
C10_Witness == fileSystemWatcher = 2 /\ liveWatchers = {2}


\* C11: dispose() leaves the snapshot absent, and the snapshot stays absent
\* until a search() or invalidateCache() made after the disposal starts a
\* new build: no snapshot is installed by an enumeration that was in flight
\* when dispose() ran.
C11_DisposeDropsSnapshot ==
    /\ [][Dispose => ~cachedData'.present]_vars
    /\ [](cachedData.present => ~cachedData.disposed)

C13_NoWorkspaceMeansEmpty ==
    /\ [][\A s \in Slots :
            (workspaceRoot = NoRoot /\ calls[s].pc = "idle" /\ calls'[s].pc # "idle")
              => /\ calls'[s].pc = "done"
                 /\ calls'[s].result = << >>
                 /\ builds' = builds /\ buildsMade' = buildsMade]_vars
    /\ [][(workspaceRoot = NoRoot /\ inv.pc = "idle" /\ inv'.pc # "idle")
            => /\ inv'.pc = "done"
               /\ builds' = builds /\ buildsMade' = buildsMade
               /\ \A s \in Slots : calls'[s] = calls[s]]_vars
    /\ [][workspaceRoot' = NoRoot => liveWatchers' \subseteq liveWatchers]_vars
    /\ [](workspaceRoot = NoRoot => (fileSystemWatcher = 0 /\ liveWatchers = {}))

\* A search() made while no folder is open has returned the empty list
\* although a snapshot, installed by a build that outlived the closing of
\* the folder, is present.
C13_Witness ==
    /\ workspaceRoot = NoRoot /\ cachedData.present
    /\ \E s \in Slots :
          calls[s].pc = "done" /\ calls[s].from = "noroot" /\ calls[s].result = << >>

\* C14: in a snapshot installed by a build, every ancestor directory of
\* every file's relative path is a key of directoryMap, and a key is mapped
\* to exactly the files that lie directly in it (the empty list when there
\* are none).
C14_AncestorsAreKeys ==
    cachedData.present =>
        /\ \A f \in Range(cachedData.files) :
              LET parts == split(f.relativePath, sep)
              IN  \A k \in 1..(Len(parts) - 1) :
                      join(SubSeq(parts, 1, k), sep) \in DOMAIN cachedData.directoryMap
        /\ \A d \in DOMAIN cachedData.directoryMap :
              Range(cachedData.directoryMap[d])
                  = {f \in Range(cachedData.files) :
                        \/ f.relativePath = d \o << sep >> \o f.name
                        \/ d = << "." >> /\ f.relativePath = f.name}

\* A build has installed the snapshot of /q, in which the folder lib, which
\* holds no file directly, is a key mapped to the empty list.
C14_Witness ==
    /\ workspaceRoot = RootQ /\ cachedData.present
    /\ << "l", "i", "b" >> \in DOMAIN cachedData.directoryMap
    /\ cachedData.directoryMap[<< "l", "i", "b" >>] = << >>
    /\ \E f \in Range(cachedData.files) :
          f.relativePath = << "l", "i", "b", "/", "x", "/", "a", ".", "t", "s" >>

\* C15: a browse (empty query) answered from the snapshot returns exactly
\* the direct children of the scope, each once: a file entry for every
\* snapshot file whose directory is the scope, and a folder entry for every
\* immediate subdirectory of the scope with a snapshot file beneath it
\* (unless a file has that very path), and nothing else.
C15_BrowseReturnsDirectChildren ==
    \A s \in Slots :
        (calls[s].pc = "done" /\ calls[s].from = "cache" /\ calls[s].query = << >>)
            => LET scope == IF calls[s].currentPath = << >> THEN << >>
                            ELSE split(calls[s].currentPath, sep)
                   n     == Len(scope)
                   below == {f \in Range(cachedData.files) :
                                LET parts == split(f.relativePath, sep)
                                IN  Len(parts) > n /\ SubSeq(parts, 1, n) = scope}
                   files == {f \in below : Len(split(f.relativePath, sep)) = n + 1}
                   dirs  == {join(SubSeq(split(f.relativePath, sep), 1, n + 1), sep) :
                                f \in {g \in below :
                                          Len(split(g.relativePath, sep)) > n + 1}}
                                \ {f.relativePath : f \in files}
                   r     == calls[s].result
               IN  /\ Len(r) = Cardinality(files) + Cardinality(dirs)
                   /\ {r[i] : i \in {j \in 1..Len(r) : r[j].type = "file"}} = files
                   /\ {r[i] : i \in {j \in 1..Len(r) : r[j].type = "folder"}}
                         = {FileSuggestion(basename(d), pathJoin(workspaceRoot, d),
                                           d, "folder") : d \in dirs}

\* A browse of the nested scope src has returned the folder src/sub and
\* the file src/a.ts.
C15_Witness ==
    \E s \in Slots :
        /\ calls[s].pc = "done" /\ calls[s].from = "cache"
        /\ calls[s].query = << >> /\ calls[s].currentPath = << "s", "r", "c" >>
        /\ Len(calls[s].result) = 2
        /\ calls[s].result[1].relativePath = << "s", "r", "c", "/", "s", "u", "b" >>
        /\ calls[s].result[2].relativePath = << "s", "r", "c", "/", "a", ".", "t", "s" >>

\* C16: in a browse result the folders precede the files, and one ordering
\* of names -- by code units (case-sensitive), by code units of the
\* lower-cased names (case-insensitive) or by localeCompare -- puts both the
\* folder group and the file group in ascending order.
C16_BrowseOrder ==
    \A s \in Slots :
        (calls[s].pc = "done" /\ calls[s].query = << >>)
            => LET r == calls[s].result
                   less(ord, a, b) ==
                       CASE ord = "codeUnit" -> codeUnitLess(a, b)
                         [] ord = "lowerCase" ->
                                codeUnitLess(toLowerCase(a), toLowerCase(b))
                         [] ord = "locale" -> localeCompare(a, b) < 0
                   ascending(ord, type) ==
                       \A i, j \in 1..Len(r) :
                           (i < j /\ r[i].type = type /\ r[j].type = type)
                               => ~less(ord, r[j].name, r[i].name)
               IN  /\ \A i, j \in 1..Len(r) :
                          (r[i].type = "folder" /\ r[j].type = "file") => i < j
                   /\ \E ord \in {"codeUnit", "lowerCase", "locale"} :
                          ascending(ord, "folder") /\ ascending(ord, "file")

\* C17: a browse answered from the snapshot returns no folder entry whose
\* relative path is the relative path of a file of the snapshot.
C17_BrowseFolderIsNoFile ==
    \A s \in Slots :
        (calls[s].pc = "done" /\ calls[s].from = "cache" /\ calls[s].query = << >>)
            => \A i \in 1..Len(calls[s].result) :
                   calls[s].result[i].type = "folder"
                       => \A f \in Range(cachedData.files) :
                              f.relativePath # calls[s].result[i].relativePath

\* A browse of the root has returned the file ab of a snapshot that also
\* holds a file inside ab.
C17_Witness ==
    \E s \in Slots :
        /\ calls[s].pc = "done" /\ calls[s].from = "cache"
        /\ calls[s].query = << >> /\ calls[s].currentPath = << >>
        /\ \E f, g \in Range(cachedData.files) :
              /\ startsWith(g.relativePath, f.relativePath \o << sep >>)
              /\ f \in Range(calls[s].result)

\* C18: the result of a non-empty query never holds a file entry and a
\* folder entry with the same relative path.
C18_QueryFolderIsNoFile ==
    \A s \in Slots :
        (calls[s].pc = "done" /\ calls[s].query # << >>)
            => \A i, j \in 1..Len(calls[s].result) :
                   (calls[s].result[i].type = "file"
                        /\ calls[s].result[j].type = "folder")
                     => calls[s].result[i].relativePath
                            # calls[s].result[j].relativePath

\* C19: with a non-empty query and a non-empty scope, every entry of the
\* result is the scope or lies below it.
C19_QueryStaysInScope ==
    \A s \in Slots :
        (calls[s].pc = "done" /\ calls[s].query # << >>
            /\ calls[s].currentPath # << >>)
          => \A i \in 1..Len(calls[s].result) :
                 \/ calls[s].result[i].relativePath = calls[s].currentPath
                 \/ startsWith(calls[s].result[i].relativePath,
                               calls[s].currentPath \o << sep >>)

\* C20: when at most MAX_RESULTS files and folders of the scope have a
\* relative path that contains the query case-insensitively (in the name,
\* in a segment, or across a separator), the result holds all of them.
C20_MatchCompleteness ==
    \A s \in Slots :
        (calls[s].pc = "done" /\ calls[s].from = "cache" /\ calls[s].query # << >>)
            => LET lowerQuery == toLowerCase(calls[s].query)
                   scope   == calls[s].currentPath
                   within(p) == scope = << >> \/ p = scope
                                    \/ startsWith(p, scope \o << sep >>)
                   files   == {[relativePath |-> f.relativePath, type |-> "file"] :
                                  f \in {g \in Range(cachedData.files) :
                                            within(g.relativePath)}}
                   folders == {[relativePath |-> d, type |-> "folder"] :
                                  d \in {x \in allFolders(cachedData.files) :
                                            within(x)}}
                   matching == {c \in files \cup folders :
                                   includes(toLowerCase(c.relativePath), lowerQuery)}
                   returned == {[relativePath |-> calls[s].result[i].relativePath,
                                 type |-> calls[s].result[i].type] :
                                   i \in 1..Len(calls[s].result)}
               IN  Cardinality(matching) <= MAX_RESULTS
                       => matching \subseteq returned

\* C21: in the result of a non-empty query every entry whose name equals
\* the query case-insensitively comes before every entry whose name does
\* not; and over the snapshot of src/a.ts, src/sub/b.ts and readme.md the
\* first entry of search("src", "") is the folder src.
C21_ExactMatchesFirst ==
    \A s \in Slots :
        (calls[s].pc = "done" /\ calls[s].query # << >>)
            => LET r == calls[s].result
                   q == toLowerCase(calls[s].query)
               IN  /\ \A i, j \in 1..Len(r) :
                          (toLowerCase(r[i].name) = q /\ toLowerCase(r[j].name) # q)
                              => i < j
                   /\ ([i \in 1..Len(cachedData.files) |-> cachedData.files[i].fullPath]
                            = Scenario
                        /\ calls[s].query = << "s", "r", "c" >>
                        /\ calls[s].currentPath = << >>)
                         => /\ Len(r) >= 1
                            /\ r[1] = FileSuggestion(<< "s", "r", "c" >>,
                                           << "/", "p", "/", "s", "r", "c" >>,
                                           << "s", "r", "c" >>, "folder")

\* search("b", "") has returned the file b first, ahead of the folder bb
\* and of the file ab, which only contain the query.
C21_Witness ==
    \E s \in Slots :
        /\ calls[s].pc = "done" /\ calls[s].query = << "b" >>
        /\ Len(calls[s].result) = 4
        /\ calls[s].result[1].relativePath = << "b" >>
        /\ calls[s].result[1].type = "file"
        /\ calls[s].result[2].type = "folder"
        /\ calls[s].result[3].relativePath = << "a", "b" >>

\* C22: of two entries of a query result that are both exact matches or
\* both not, a folder comes before a file, two entries of the same kind are
\* in ascending order of name (localeCompare), and two entries of the same
\* kind with the same name are in the order in which the scan found them.
C22_OrderWithinExactness ==
    \A s \in Slots :
        (calls[s].pc = "done" /\ calls[s].from = "cache" /\ calls[s].query # << >>)
            => LET r == calls[s].result
                   q == toLowerCase(calls[s].query)
                   found(e) ==
                       CHOOSE k \in 1..Len(filterCandidates(cachedData, workspaceRoot,
                                              calls[s].query, calls[s].currentPath)) :
                           filterCandidates(cachedData, workspaceRoot,
                               calls[s].query, calls[s].currentPath)[k] = e
               IN  \A i, j \in 1..Len(r) :
                       (i < j /\ ((toLowerCase(r[i].name) = q)
                                      <=> (toLowerCase(r[j].name) = q)))
                         => /\ ~(r[i].type = "file" /\ r[j].type = "folder")
                            /\ r[i].type = r[j].type
                                  => /\ localeCompare(r[i].name, r[j].name) <= 0
                                     /\ localeCompare(r[i].name, r[j].name) = 0
                                           => found(r[i]) < found(r[j])

\* search("c", "") has returned the files B/c and a/c, equal under the
\* three rules, in the order of the enumeration.
C22_Witness ==
    \E s \in Slots :
        /\ calls[s].pc = "done" /\ calls[s].query = << "c" >>
        /\ Len(calls[s].result) = 2
        /\ calls[s].result[1].relativePath = << "B", "/", "c" >>
        /\ calls[s].result[2].relativePath = << "a", "/", "c" >>
        /\ cachedData.files[1].relativePath = << "B", "/", "c" >>

\* C23: no two entries of a search result have the same kind and the same
\* relative path.
C23_NoDuplicateEntries ==
    \A s \in Slots :
        calls[s].pc = "done"
            => \A i, j \in 1..Len(calls[s].result) :
                   (calls[s].result[i].type = calls[s].result[j].type
                      /\ calls[s].result[i].relativePath
                             = calls[s].result[j].relativePath)
                     => i = j

\* search("src", "") has returned the folder src once, although the paths
\* of two files run through it, and each of the two files once.
C23_Witness ==
    \E s \in Slots :
        /\ calls[s].pc = "done" /\ calls[s].query = << "s", "r", "c" >>
        /\ Len(calls[s].result) = 3
        /\ calls[s].result[1].type = "folder"
        /\ calls[s].result[2].type = "file" /\ calls[s].result[3].type = "file"

\* C24: every folder entry of a query result is a proper directory prefix
\* of the relative path of a snapshot file, named by its last segment, and
\* that segment contains the query; the last segment of a file's path is
\* never the segment a folder entry is made from.
C24_FoldersAreDirectoryPrefixes ==
    \A s \in Slots :
        (calls[s].pc = "done" /\ calls[s].from = "cache" /\ calls[s].query # << >>)
            => \A i \in 1..Len(calls[s].result) :
                   calls[s].result[i].type = "folder"
                     => \E f \in Range(cachedData.files) :
                          \E k \in 1..(Len(split(f.relativePath, sep)) - 1) :
                            /\ calls[s].result[i].relativePath
                                  = join(SubSeq(split(f.relativePath, sep), 1, k), sep)
                            /\ calls[s].result[i].name = split(f.relativePath, sep)[k]
                            /\ includes(toLowerCase(calls[s].result[i].name),
                                        toLowerCase(calls[s].query))

\* search("a", "") over ab/ac/a00 has returned the folders ab and ac and
\* the file, and no folder made from the file name a00.
C24_Witness ==
    \E s \in Slots :
        /\ calls[s].pc = "done" /\ calls[s].query = << "a" >>
        /\ calls[s].currentPath = << >> /\ Len(cachedData.files) = 1
        /\ Len(calls[s].result) = 3
        /\ calls[s].result[1].relativePath = << "a", "b" >>
        /\ calls[s].result[2].relativePath = << "a", "b", "/", "a", "c" >>
        /\ calls[s].result[3].type = "file"

\* C25 as stated: over the snapshot of src/a.ts, src/sub/b.ts and
\* readme.md, search("b", "") returns exactly one entry, the file
\* src/sub/b.ts.
C25_ScenarioQueryReturnsOnlyTheFile ==
    \A s \in Slots :
        ([i \in 1..Len(cachedData.files) |-> cachedData.files[i].fullPath] = Scenario
            /\ calls[s].pc = "done" /\ calls[s].query = << "b" >>
            /\ calls[s].currentPath = << >>)
          => /\ Len(calls[s].result) = 1
             /\ calls[s].result[1].type = "file"
             /\ calls[s].result[1].relativePath
                   = << "s", "r", "c", "/", "s", "u", "b", "/", "b", ".", "t", "s" >>

\* C25 amended: over that snapshot search("b", "") returns the folder
\* src/sub, whose name contains the query, and then the file src/sub/b.ts.
C25_ScenarioQueryReturnsFolderAndFile ==
    \A s \in Slots :
        ([i \in 1..Len(cachedData.files) |-> cachedData.files[i].fullPath] = Scenario
            /\ calls[s].pc = "done" /\ calls[s].query = << "b" >>
            /\ calls[s].currentPath = << >>)
          => calls[s].result
               = << FileSuggestion(<< "s", "u", "b" >>,
                        << "/", "p", "/", "s", "r", "c", "/", "s", "u", "b" >>,
                        << "s", "r", "c", "/", "s", "u", "b" >>, "folder"),
                    FileSuggestion(<< "b", ".", "t", "s" >>,
                        << "/", "p", "/", "s", "r", "c", "/", "s", "u", "b", "/",
                           "b", ".", "t", "s" >>,
                        << "s", "r", "c", "/", "s", "u", "b", "/", "b", ".", "t", "s" >>,
                        "file") >>

\* search("b", "") over the snapshot of the scenario has returned.
C25_Witness ==
    \E s \in Slots :
        /\ [i \in 1..Len(cachedData.files) |-> cachedData.files[i].fullPath] = Scenario
        /\ calls[s].pc = "done" /\ calls[s].from = "cache"
        /\ calls[s].query = << "b" >> /\ calls[s].currentPath = << >>
        /\ Len(calls[s].result) = 2

\* C26: over the snapshot of src/a.ts, src/sub/b.ts and readme.md,
\* search("", "") returns the folder src and then the file readme.md, and
\* search("", "src") returns the folder src/sub (named sub) and then the
\* file src/a.ts.
C26_ScenarioBrowse ==
    \A s \in Slots :
        ([i \in 1..Len(cachedData.files) |-> cachedData.files[i].fullPath] = Scenario
            /\ calls[s].pc = "done" /\ calls[s].query = << >>)
          => /\ calls[s].currentPath = << >>
                => calls[s].result
                     = << FileSuggestion(<< "s", "r", "c" >>,
                              << "/", "p", "/", "s", "r", "c" >>,
                              << "s", "r", "c" >>, "folder"),
                          FileSuggestion(<< "r", "e", "a", "d", "m", "e", ".", "m", "d" >>,
                              << "/", "p", "/", "r", "e", "a", "d", "m", "e", ".", "m", "d" >>,
                              << "r", "e", "a", "d", "m", "e", ".", "m", "d" >>, "file") >>
             /\ calls[s].currentPath = << "s", "r", "c" >>
                => calls[s].result
                     = << FileSuggestion(<< "s", "u", "b" >>,
                              << "/", "p", "/", "s", "r", "c", "/", "s", "u", "b" >>,
                              << "s", "r", "c", "/", "s", "u", "b" >>, "folder"),
                          FileSuggestion(<< "a", ".", "t", "s" >>,
                              << "/", "p", "/", "s", "r", "c", "/", "a", ".", "t", "s" >>,
                              << "s", "r", "c", "/", "a", ".", "t", "s" >>, "file") >>

\* The browse of the root of the scenario has returned two entries, the
\* folder first.
C26_Witness ==
    \E s \in Slots :
        /\ [i \in 1..Len(cachedData.files) |-> cachedData.files[i].fullPath] = Scenario
        /\ calls[s].pc = "done" /\ calls[s].from = "cache"
        /\ calls[s].query = << >> /\ calls[s].currentPath = << >>
        /\ Len(calls[s].result) = 2 /\ calls[s].result[1].type = "folder"

\* C29: the snapshot is absent or complete: its directory map is the one
\* derived from its file list, the file list is one whole result of
\* findFiles, and the enumeration that produced it has finished; a
\* call answered from the snapshot used the installed snapshot; and a step
\* from a present snapshot to a present snapshot either leaves it as it is
\* or installs the snapshot of another enumeration.
C29_SnapshotReplacedWholesale ==
    /\ [](cachedData.present
            => /\ cachedData.directoryMap = directoryMapOf(cachedData.files)
               /\ \A i \in 1..Len(cachedData.files) :
                      \E k \in 1..Len(cachedData.directoryMap[
                                  dirKeyOf(cachedData.files[i].relativePath)]) :
                          cachedData.directoryMap[
                              dirKeyOf(cachedData.files[i].relativePath)][k]
                            = cachedData.files[i]
               /\ [i \in 1..Len(cachedData.files) |-> cachedData.files[i].fullPath]
                     \in AllFindFilesResults
               /\ cachedData.build \in 1..buildsMade
               /\ \A b \in builds : b.id # cachedData.build)
    /\ [](\A s \in Slots :
            (calls[s].pc = "done" /\ calls[s].from = "cache")
                => /\ cachedData.present
                   /\ calls[s].snap = cachedData.build
                   /\ \A i \in 1..Len(calls[s].result) :
                          calls[s].result[i].type = "file"
                              => \E k \in 1..Len(cachedData.files) :
                                     cachedData.files[k] = calls[s].result[i])
    /\ [][(cachedData.present /\ cachedData'.present)
            => \/ cachedData' = cachedData
               \/ cachedData'.build # cachedData.build]_vars

\* The snapshot of the second enumeration is installed, with its three
\* files, and a call has been answered from it.
C29_Witness ==
    /\ cachedData.present /\ cachedData.build = 2
    /\ Len(cachedData.files) = 3
    /\ \E s \in Slots : calls[s].pc = "done" /\ calls[s].from = "cache"
                            /\ calls[s].snap = 2 /\ Len(calls[s].result) > 0

\* C30: a watcher notification leaves the snapshot absent and changes
\* nothing else: the workspace root, the watcher, the build marker, the
\* live watchers, the calls in progress and the number and identity of the
\* enumerations in flight are as before.
C30_NotificationOnlyDropsSnapshot ==
    [][WatcherNotification
         => /\ ~cachedData'.present
            /\ workspaceRoot' = workspaceRoot
            /\ fileSystemWatcher' = fileSystemWatcher
            /\ cacheBuildPromise' = cacheBuildPromise
            /\ liveWatchers' = liveWatchers
            /\ buildsMade' = buildsMade
            /\ {b.id : b \in builds'} = {b.id : b \in builds}
            /\ calls' = calls /\ inv' = inv /\ now' = now]_vars

\* A notification has been delivered while an enumeration was pending:
\* the snapshot is absent and the build marker still names the enumeration.
C30_Witness ==
    /\ ~cachedData.present
    /\ cacheBuildPromise # 0
    /\ \E b \in builds : b.outdated /\ b.id = cacheBuildPromise

\* C27: two search("", scope) calls with the same scope against the same
\* unchanged snapshot return identical ordered lists: a browse that has
\* returned has the result of the caller's previous browse of that scope.
C27_BrowseTwiceSameResult ==
    \A s \in Slots :
        (calls[s].pc = "done" /\ calls[s].query = << >>
            /\ calls[s].previous.posted /\ calls[s].previous.query = << >>
            /\ calls[s].previous.currentPath = calls[s].currentPath)
          => calls[s].result = calls[s].previous.result

C32_FailedBuildClearsMarker ==
    /\ cacheBuildPromise # 0 => \E b \in builds : b.id = cacheBuildPromise
    /\ \A s \in Slots :
          (calls[s].pc = "done" /\ calls[s].from = "absent"
              /\ calls[s].startBuilds = {})
            => calls[s].started # {}

\* C31: a search() with a non-empty query that is issued while the
\* snapshot is present and younger than the TTL returns in the turn of the
\* call, having started no enumeration and no directory read and waited
\* for no build, and leaves the snapshot, the build marker, the pending
\* enumerations, the root and the watcher as they were.
C31_ValidSnapshotQueryHasNoEffect ==
    [][\A s \in Slots :
          (calls[s].pc = "idle" /\ calls'[s].pc # "idle"
              /\ calls'[s].query # << >>
              /\ cachedData.present /\ now - cachedData.timestamp < CACHE_TTL)
            => /\ calls'[s].pc = "done"
               /\ calls'[s].started = {} /\ calls'[s].joined = {}
               /\ calls'[s].awaited = 0
               /\ calls'[s].from \in {"cache", "noroot"}
               /\ workspaceRoot # NoRoot => calls'[s].from = "cache"
               /\ cachedData' = cachedData
               /\ cacheBuildPromise' = cacheBuildPromise
               /\ builds' = builds /\ buildsMade' = buildsMade
               /\ workspaceRoot' = workspaceRoot
               /\ fileSystemWatcher' = fileSystemWatcher
               /\ liveWatchers' = liveWatchers]_vars

\* A query has been answered from a snapshot that was valid when the call
\* was issued; the call started nothing and waited for nothing.
C31_Witness ==
    \E s \in Slots :
        /\ calls[s].pc = "done" /\ calls[s].query # << >>
        /\ calls[s].from = "cache" /\ Len(calls[s].result) > 0
        /\ calls[s].started = {} /\ calls[s].joined = {}
        /\ cachedData.present /\ now - cachedData.timestamp < CACHE_TTL
        /\ buildsMade = 1

C34_DirectoryMapPartitionsFiles ==
    cachedData.present =>
        LET files == cachedData.files
            dm    == cachedData.directoryMap
        IN  /\ \A i \in 1..Len(files) :
                 /\ dirname(files[i].relativePath) \in DOMAIN dm
                 /\ \A k \in DOMAIN dm :
                        Cardinality({j \in 1..Len(dm[k]) : dm[k][j] = files[i]})
                            = IF k = dirname(files[i].relativePath) THEN 1 ELSE 0
            /\ \A k \in DOMAIN dm : \A j \in 1..Len(dm[k]) :
                 \E i \in 1..Len(files) :
                     files[i] = dm[k][j] /\ dirname(files[i].relativePath) = k

\* A build has installed the snapshot of src/a.ts, src/sub/b.ts and
\* readme.md: one file under ".", one under src and one under src/sub.
C34_Witness ==
    /\ cachedData.present
    /\ Len(cachedData.files) = 3
    /\ << "." >> \in DOMAIN cachedData.directoryMap
    /\ Len(cachedData.directoryMap[<< "." >>]) = 1
    /\ << "s", "r", "c" >> \in DOMAIN cachedData.directoryMap
    /\ Len(cachedData.directoryMap[<< "s", "r", "c" >>]) = 1
    /\ cachedData.directoryMap[<< "." >>][1].name
           = << "r", "e", "a", "d", "m", "e", ".", "m", "d" >>

\* C35: match soundness: every file entry that search(q, scope) returned
\* for a non-empty q has a name or a segment of its relative path that
\* contains q case-insensitively, and every folder entry it returned has a
\* name that contains q case-insensitively.
C35_MatchSoundness ==
    \A s \in Slots :
        (calls[s].pc = "done" /\ calls[s].query # << >>) =>
            LET q == calls[s].query
                contains(str) ==
                    \E o \in 0..(Len(str) - Len(q)) :
                        \A k \in 1..Len(q) :
                            toLowerChar(str[o + k]) = toLowerChar(q[k])
            IN  \A i \in 1..Len(calls[s].result) :
                    LET r == calls[s].result[i]
                    IN  IF r.type = "file"
                        THEN \/ contains(r.name)
                             \/ \E part \in Range(split(r.relativePath, sep)) :
                                    contains(part)
                        ELSE r.type = "folder" /\ contains(r.name)

\* search("src", "") over src/a.ts, src/sub/b.ts and readme.md has
\* returned the folder src and the two files below it, whose names do not
\* contain the query, and has left readme.md out.
C35_Witness ==
    /\ calls[1].pc = "done"
    /\ calls[1].query = << "s", "r", "c" >>
    /\ Len(cachedData.files) = 3
    /\ Len(calls[1].result) = 3
    /\ \E i \in 1..3 : calls[1].result[i].type = "folder"
    /\ \E i \in 1..3 : calls[1].result[i].name = << "a", ".", "t", "s" >>

\* C36: the direct listing omits an entry only if the enumeration of
\* findFiles would exclude it too: every entry of the listing that no
\* exclude pattern removes (it is not named like an excluded directory and
\* does not end with .min.js or .min.css) is in the result of the browse,
\* with its name and its kind.
C36_FallbackOmitsOnlyExcluded ==
    \A s \in Slots :
        (calls[s].pc = "done" /\ calls[s].from = "fs") =>
            \A i \in 1..Len(calls[s].listing) :
                LET e == calls[s].listing[i]
                IN  ~enumerationExcludes(e.name) =>
                        \E j \in 1..Len(calls[s].result) :
                            /\ calls[s].result[j].name = e.name
                            /\ calls[s].result[j].type
                                 = IF e.isDirectory THEN "folder" ELSE "file"

\* C37: the terminal receives each message's text immediately followed by
\* that message's Enter: whatever follows a text in the terminal's input is
\* the Enter of the same message, and no Enter of an earlier message comes
\* after the text of a later message.
C37_EnterFollowsItsText ==
    /\ \A i \in 1..(Len(claudeTerminal) - 1) :
          ~claudeTerminal[i].enter =>
              /\ claudeTerminal[i + 1].enter
              /\ claudeTerminal[i + 1].msg = claudeTerminal[i].msg
    /\ \A i, j \in 1..Len(claudeTerminal) :
          (i < j /\ ~claudeTerminal[i].enter /\ claudeTerminal[j].enter)
            => claudeTerminal[j].msg >= claudeTerminal[i].msg

\* C38: the history holds at most MAX_HISTORY items, their texts are not
\* empty, neither begin nor end with white space and are pairwise
\* distinct; and adding a text the history holds further down moves that
\* item to the front and leaves the other items as they were.
C38_HistoryWellFormed ==
    /\ [](/\ Len(history) <= MAX_HISTORY
          /\ \A i \in 1..Len(history) :
                /\ history[i].text # << >>
                /\ history[i].text[1] \notin {" ", "\t", "\n"}
                /\ history[i].text[Len(history[i].text)] \notin {" ", "\t", "\n"}
          /\ \A i, j \in 1..Len(history) :
                i # j => history[i].text # history[j].text)
    /\ [][\A k \in 2..Len(history) :
            (Len(history') = Len(history)
                /\ history'[1].text = history[k].text)
              => /\ \A i \in 2..k : history'[i] = history[i - 1]
                 /\ \A i \in (k + 1)..Len(history) : history'[i] = history[i]]_vars

\* The history is full, the newest item is the fifty-first text that was
\* added, and the first text that was added has been cut off.
C38_Witness ==
    /\ Len(history) = MAX_HISTORY
    /\ history[1].text = historyText(MAX_HISTORY)
    /\ \A i \in 1..Len(history) : history[i].text # historyText(0)
====
